---------------------------- MODULE Spec2Model ----------------------------
(***************************************************************************)
(* A model of the risk-profile pipeline of crypto-portfolio-agent:         *)
(*   src/src/analysis/riskprofile.py   (orchestration, validation)         *)
(*   src/src/analysis/data_service.py  (fetch, resample, align)            *)
(*   src/src/analysis/valuation.py     (position and portfolio value)      *)
(*                                                                         *)
(* Conventions.  A timestamp is <<day, slot>>: a calendar day and an       *)
(* intra-day position.  A pandas cell is a sequence of length at most 1:   *)
(* <<>> is NaN and <<v>> holds v.  A DataFrame of rows is a set of         *)
(* records with pairwise different timestamps (pandas keeps it sorted by   *)
(* timestamp; the order is recovered from the timestamps).  A daily mean   *)
(* is the exact fraction [num, den].                                       *)
(***************************************************************************)
EXTENDS Integers, Sequences, FiniteSets, TLC

VARIABLES
    positions,      \* request_data["positions"]: a sequence of dicts
    lookback_days,  \* request_data["lookback_days"]
    pc,             \* the statement calculate_risk_profile is at
    trace,          \* history: the stages finished so far, with their outcome
    result,         \* what calculate_risk_profile returned or raised
    assets,         \* list(set(asset of positions)): a sequence
    db,             \* the database: what each fetch coroutine will produce
    task,           \* the state of every fetch coroutine
    spot_data,      \* spot_data_dict of fetch_portfolio_data
    futures_data,   \* futures_data_dict of fetch_portfolio_data
    actual_days,    \* min_days of fetch_portfolio_data
    daily_spot,     \* resample_to_daily: daily_spot
    daily_futures,  \* resample_to_daily: daily_futures
    aligned,        \* align_time_series: the aligned DataFrame
    warnings,       \* align_time_series: the warnings list
    data_warning,   \* data_availability_warning of the response
    current_prices, \* _extract_current_prices
    current_value,  \* valuation.calculate_portfolio_value at current prices
    portfolio_values, \* _calculate_historical_portfolio_series
    shock_range,    \* settings.SENSITIVITY_RANGE: the shocks, in percent
    sensitivity_table, \* valuation.calculate_sensitivity_table
    delta_exposure, \* valuation.calculate_delta_exposure
    risk_metrics,   \* graph.py: the risk_metrics given to calculate_alert_dashboard
    dashboard,      \* graph.py: what calculate_alert_dashboard returns
    data,           \* utils.py: the payload given to sanitize_dict
    sanitized,      \* utils.py: what sanitize_dict returns
    sensitivity_graph,  \* graph.py: what calculate_sensitivity_graph returns
    delta_gauge,        \* graph.py: what calculate_delta_gauge returns
    asset_returns,      \* graph.py: asset_returns given to calculate_risk_contribution
    correlation_matrix, \* graph.py: correlation_matrix given to calculate_risk_contribution
    portfolio_variance, \* graph.py: portfolio_variance given to calculate_risk_contribution
    risk_contribution,  \* graph.py: what calculate_risk_contribution returns
    current_portfolio,  \* tools/base.py: ToolContext.current_portfolio (<<>> when not set)
    reasonings,         \* tools/base.py: ToolContext.reasonings
    tool_call,          \* tools/base.py: the tool call handled last, with its arguments
    chat_store,         \* service.py: the chat records of the ChatStore, by chat id
    queue,              \* service.py: the jobs enqueued on the RQ queue, in order
    clock,              \* service.py: time.time() in milliseconds
    request             \* service.py: the service calls in progress

vars == <<positions, lookback_days, pc, trace, result, assets, db, task,
          spot_data, futures_data, actual_days, daily_spot, daily_futures,
          aligned, warnings, data_warning, current_prices, current_value,
          portfolio_values, shock_range, sensitivity_table, delta_exposure,
          risk_metrics, dashboard, data, sanitized,
          sensitivity_graph, delta_gauge, asset_returns, correlation_matrix,
          portfolio_variance, risk_contribution,
          current_portfolio, reasonings, tool_call, chat_store, queue, clock, request>>

(***************************************************************************)
(* Bounds of the model.                                                    *)
(***************************************************************************)
MaxDay == 2
MaxSlot == 1
MaxObs == 4
MaxLen == 3

(***************************************************************************)
(* Program constants.                                                      *)
(***************************************************************************)
MAX_POSITIONS == 20
MAX_LEVERAGE == 125
MIN_HISTORY_DAYS == 30

AllAssets == {"BTC", "ETH"}
NaN == <<>>
Cell(v) == <<v>>
IsNa(c) == c = <<>>
None == [kind |-> "None"]

(***************************************************************************)
(* Generic helpers.                                                        *)
(***************************************************************************)
Min(S) == CHOOSE x \in S : \A y \in S : x <= y
Max(S) == CHOOSE x \in S : \A y \in S : x >= y

Range(s) == {s[i] : i \in DOMAIN s}

\* the dict d with key k set to v (insertion into a Python dict)
DictPut(d, k, v) == [x \in (DOMAIN d) \cup {k} |-> IF x = k THEN v ELSE d[x]]
EmptyDict == [x \in {} |-> 0]

\* timestamps: <<day, slot>>, ordered by day and then by slot
TsLess(a, b) == a[1] < b[1] \/ (a[1] = b[1] /\ a[2] < b[2])
DayOf(ts) == ts[1]

(***************************************************************************)
(* The database.  db[a] holds, for asset a, what get_ohlcv_data,           *)
(* get_mark_klines and get_funding_rates produce: ok = FALSE is a raised   *)
(* exception (or timeout), otherwise rows is the returned list (maybe      *)
(* empty), a set of [timestamp, v].  The market is one frozen price path;  *)
(* the database covers any part of it.                                     *)
(***************************************************************************)
Failed == [ok |-> FALSE, rows |-> {}]
Fetched(rows) == [ok |-> TRUE, rows |-> rows]

SpotClose(a, ts) ==
    100 * ((IF a = "BTC" THEN 100 ELSE 50) + 2 * ts[1]
           + (IF ts[1] % 2 = 0 THEN ts[2] ELSE 0 - ts[2]))
MarkClose(a, ts) == SpotClose(a, ts) + 100
FundingRate(a, ts) == 1 + ts[1] + 2 * ts[2]

SpotRows(a, T) == {[timestamp |-> ts, v |-> SpotClose(a, ts)] : ts \in T}
MarkRows(a, T) == {[timestamp |-> ts, v |-> MarkClose(a, ts)] : ts \in T}
FundingRows(a, T) == {[timestamp |-> ts, v |-> FundingRate(a, ts)] : ts \in T}

(***************************************************************************)
(* fetch_portfolio_data, lines 53-117: the processing of the gathered      *)
(* results.  A dict is a function; its iteration order is the order of its *)
(* keys in the list `assets` (the insertion order).                        *)
(***************************************************************************)
KeysInOrder(order, d) == SelectSeq(order, LAMBDA a : a \in DOMAIN d)

\* lines 64-67: DataFrame(result)[["timestamp", "close"]]
SpotFrame(res) == {[timestamp |-> r.timestamp, close |-> r.v] : r \in res.rows}

\* lines 55-68
SpotIncluded(res) == res.ok /\ res.rows # {}
\* a variant in which one raised spot fetch empties the whole spot result
ProcessSpotAllOrNothing(order, results) ==
    IF \E x \in Range(order) : ~results[x].spot.ok THEN EmptyDict
    ELSE [a \in {x \in Range(order) : SpotIncluded(results[x].spot)} |->
             SpotFrame(results[a].spot)]

ProcessSpot(order, results) ==
    [a \in {x \in Range(order) : SpotIncluded(results[x].spot)} |-> SpotFrame(results[a].spot)]

\* lines 86-102: mark_df left-merged with funding_df on timestamp, or
\* funding_rate = 0.0 when there is no funding row at all
FuturesFrame(mark, funding) ==
    {[timestamp |-> m.timestamp,
      mark_price |-> Cell(m.v),
      funding_rate |->
          IF funding.rows = {} THEN Cell(0)
          ELSE IF \E f \in funding.rows : f.timestamp = m.timestamp
               THEN Cell((CHOOSE f \in funding.rows : f.timestamp = m.timestamp).v)
               ELSE NaN] : m \in mark.rows}

\* lines 72-83
FuturesIncluded(mark, funding) == mark.ok /\ funding.ok /\ mark.rows # {}
ProcessFutures(order, results) ==
    [a \in {x \in Range(order) : FuturesIncluded(results[x].mark, results[x].funding)} |->
        FuturesFrame(results[a].mark, results[a].funding)]

\* (df["timestamp"].max() - df["timestamp"].min()).days
SpanDays(frame) ==
    LET lo == CHOOSE r \in frame : \A q \in frame : ~TsLess(q.timestamp, r.timestamp)
        hi == CHOOSE r \in frame : \A q \in frame : ~TsLess(r.timestamp, q.timestamp)
    IN  IF hi.timestamp[2] >= lo.timestamp[2]
        THEN hi.timestamp[1] - lo.timestamp[1]
        ELSE hi.timestamp[1] - lo.timestamp[1] - 1

\* lines 108-113
MinDays(lookback, spot) == Min({lookback} \cup {SpanDays(spot[a]) : a \in DOMAIN spot})

(***************************************************************************)
(* resample_to_daily, lines 120-179.  resample("D") makes one bin per      *)
(* calendar day from the first to the last row; last() and mean() skip     *)
(* NaN and give NaN for a bin without a value; dropna() drops the rows     *)
(* that hold a NaN.                                                        *)
(***************************************************************************)
BinDays(frame) ==
    Min({DayOf(r.timestamp) : r \in frame}) .. Max({DayOf(r.timestamp) : r \in frame})

\* df.resample("D")[field].last() at bin d
LastOfDay(frame, field, d) ==
    LET R == {r \in frame : DayOf(r.timestamp) = d /\ ~IsNa(r[field])}
    IN  IF R = {} THEN NaN
        ELSE (CHOOSE r \in R : \A q \in R : ~TsLess(r.timestamp, q.timestamp))[field]

RECURSIVE SumField(_, _)
SumField(R, field) ==
    IF R = {} THEN 0
    ELSE LET r == CHOOSE x \in R : TRUE IN r[field][1] + SumField(R \ {r}, field)

\* df.resample("D")[field].mean() at bin d
MeanOfDay(frame, field, d) ==
    LET R == {r \in frame : DayOf(r.timestamp) = d /\ ~IsNa(r[field])}
    IN  IF R = {} THEN NaN
        ELSE Cell([num |-> SumField(R, field), den |-> Cardinality(R)])

\* lines 141-147 for one asset
ResampleSpot(frame) ==
    LET cells == {[timestamp |-> r.timestamp, close |-> Cell(r.close)] : r \in frame}
        daily == [d \in BinDays(frame) |-> LastOfDay(cells, "close", d)]
    IN  {[timestamp |-> d, close |-> daily[d][1]] : d \in {x \in DOMAIN daily : ~IsNa(daily[x])}}

\* lines 157-174 for one asset
ResampleFutures(frame) ==
    LET daily_mark == [d \in BinDays(frame) |-> LastOfDay(frame, "mark_price", d)]
        daily_funding == [d \in BinDays(frame) |-> MeanOfDay(frame, "funding_rate", d)]
        kept == {d \in BinDays(frame) : ~IsNa(daily_mark[d]) /\ ~IsNa(daily_funding[d])}
    IN  {[timestamp |-> d, mark_price |-> daily_mark[d][1],
          funding_rate |-> daily_funding[d][1]] : d \in kept}

\* lines 135-150 and 152-177: the two loops (an empty frame is skipped)
ResampleAllSpot(spot) ==
    [a \in {x \in DOMAIN spot : spot[x] # {}} |-> ResampleSpot(spot[a])]
ResampleAllFutures(futures) ==
    [a \in {x \in DOMAIN futures : futures[x] # {}} |-> ResampleFutures(futures[a])]

(***************************************************************************)
(* align_time_series, lines 182-269.  The aligned DataFrame is             *)
(* [lo, hi, cols]: one row per day of lo..hi (pd.date_range) and, for      *)
(* each column key <<asset, field>>, the function day -> cell.             *)
(***************************************************************************)
\* a variant that collects the timestamps of the spot series only
SpotTimestampsOnly(spot, futures) ==
    UNION {{r.timestamp : r \in spot[a]} : a \in DOMAIN spot}

\* lines 202-206
AllTimestamps(spot, futures) ==
    UNION {{r.timestamp : r \in spot[a]} : a \in DOMAIN spot}
    \cup UNION {{r.timestamp : r \in futures[a]} : a \in DOMAIN futures}

\* pd.merge(aligned, df, on="timestamp", how="left"): the new column
MergeLeft(days, frame, field) ==
    [d \in days |->
        IF \E r \in frame : r.timestamp = d
        THEN Cell((CHOOSE r \in frame : r.timestamp = d)[field])
        ELSE NaN]

\* Series.ffill(): a NaN takes the last value before it, if there is one
Ffill(col) ==
    LET lo == Min(DOMAIN col)
        F[d \in DOMAIN col] ==
            IF ~IsNa(col[d]) THEN col[d]
            ELSE IF d = lo THEN NaN ELSE F[d - 1]
    IN  F

\* Series.bfill(): a NaN takes the next value after it, if there is one
Bfill(col) ==
    LET hi == Max(DOMAIN col)
        B[d \in DOMAIN col] ==
            IF ~IsNa(col[d]) THEN col[d]
            ELSE IF d = hi THEN NaN ELSE B[d + 1]
    IN  B

\* Series.fillna(v)
Fillna(col, v) == [d \in DOMAIN col |-> IF IsNa(col[d]) THEN Cell(v) ELSE col[d]]

\* Series.isna().sum()
NaCount(col) == Cardinality({d \in DOMAIN col : IsNa(col[d])})

Zero == [num |-> 0, den |-> 1]
Warning(a, field, n) == [asset |-> a, field |-> field, count |-> n]

\* lines 220-234: the loop over spot_data.items(), from key number i on
RECURSIVE AlignSpotLoop(_, _, _, _, _, _)
AlignSpotLoop(keys, i, spot, days, cols, warns) ==
    IF i > Len(keys) THEN [cols |-> cols, warnings |-> warns]
    ELSE LET a == keys[i]
             filled == Ffill(MergeLeft(days, spot[a], "close"))
             gap == NaCount(filled) > 0
         IN  AlignSpotLoop(keys, i + 1, spot, days,
                 DictPut(cols, <<a, "spot">>, IF gap THEN Bfill(filled) ELSE filled),
                 IF gap THEN Append(warns, Warning(a, "spot", NaCount(filled))) ELSE warns)

\* lines 237-262: the loop over futures_data.items(), from key number i on
RECURSIVE AlignFuturesLoop(_, _, _, _, _, _)
AlignFuturesLoop(keys, i, futures, days, cols, warns) ==
    IF i > Len(keys) THEN [cols |-> cols, warnings |-> warns]
    ELSE LET a == keys[i]
             mark == Ffill(MergeLeft(days, futures[a], "mark_price"))
             funding == Ffill(MergeLeft(days, futures[a], "funding_rate"))
             markGap == NaCount(mark) > 0
             fundingGap == NaCount(funding) > 0
             w1 == IF markGap THEN Append(warns, Warning(a, "futures", NaCount(mark)))
                   ELSE warns
             w2 == IF fundingGap THEN Append(w1, Warning(a, "funding", NaCount(funding)))
                   ELSE w1
             c1 == DictPut(cols, <<a, "futures_mark">>, IF markGap THEN Bfill(mark) ELSE mark)
             c2 == DictPut(c1, <<a, "funding">>,
                           IF fundingGap THEN Fillna(funding, Zero) ELSE funding)
         IN  AlignFuturesLoop(keys, i + 1, futures, days, c2, w2)

\* lines 199-269; raised = TRUE is ValueError("No data available for any asset")
AlignTimeSeries(order, spot, futures) ==
    LET all == AllTimestamps(spot, futures)
    IN  IF all = {}
        THEN [raised |-> TRUE, aligned |-> None, warnings |-> <<>>]
        ELSE LET days == Min(all) .. Max(all)
                 s == AlignSpotLoop(KeysInOrder(order, spot), 1, spot, days, EmptyDict, <<>>)
                 f == AlignFuturesLoop(KeysInOrder(order, futures), 1, futures, days,
                                       s.cols, s.warnings)
             IN  [raised |-> FALSE,
                  aligned |-> [kind |-> "DataFrame", lo |-> Min(all), hi |-> Max(all),
                               cols |-> f.cols],
                  warnings |-> f.warnings]

(***************************************************************************)
(* _validate_positions, riskprofile.py lines 123-156.  A position is a     *)
(* dict: a function whose domain holds the keys that are present.  The     *)
(* outcome is Valid, or Invalid(i, why) for ValueError, i the Python index *)
(* of the position named in the message (NoIndex when it names none).      *)
(***************************************************************************)
NoIndex == 0 - 1
Valid == [ok |-> TRUE]
Invalid(i, why) == [ok |-> FALSE, index |-> i, why |-> why]

REQUIRED_FIELDS == <<"asset", "quantity", "position_type", "entry_price">>
POSITION_TYPES == {"spot", "futures_long", "futures_short"}

\* pos.get("leverage", 1.0)
LeverageOf(pos) == IF "leverage" \in DOMAIN pos THEN pos.leverage ELSE 1

\* a variant that accepts a quantity of 0
CheckPositionAcceptZero(pos) ==
    IF \E k \in DOMAIN REQUIRED_FIELDS : REQUIRED_FIELDS[k] \notin DOMAIN pos
    THEN REQUIRED_FIELDS[Min({k \in DOMAIN REQUIRED_FIELDS : REQUIRED_FIELDS[k] \notin DOMAIN pos})]
    ELSE IF pos.position_type \notin POSITION_TYPES THEN "position_type"
    ELSE IF pos.quantity < 0 THEN "quantity"
    ELSE IF pos.entry_price <= 0 THEN "entry_price"
    ELSE IF LeverageOf(pos) <= 0 \/ LeverageOf(pos) > MAX_LEVERAGE THEN "leverage"
    ELSE "ok"

\* lines 132-156: the body of the loop for one position
CheckPosition(pos) ==
    IF \E k \in DOMAIN REQUIRED_FIELDS : REQUIRED_FIELDS[k] \notin DOMAIN pos
    THEN REQUIRED_FIELDS[Min({k \in DOMAIN REQUIRED_FIELDS : REQUIRED_FIELDS[k] \notin DOMAIN pos})]
    ELSE IF pos.position_type \notin POSITION_TYPES THEN "position_type"
    ELSE IF pos.quantity <= 0 THEN "quantity"
    ELSE IF pos.entry_price <= 0 THEN "entry_price"
    ELSE IF LeverageOf(pos) <= 0 \/ LeverageOf(pos) > MAX_LEVERAGE THEN "leverage"
    ELSE "ok"

\* line 131: for i, pos in enumerate(positions), from position number i on
RECURSIVE ValidateLoop(_, _)
ValidateLoop(ps, i) ==
    IF i > Len(ps) THEN Valid
    ELSE IF CheckPosition(ps[i]) # "ok" THEN Invalid(i - 1, CheckPosition(ps[i]))
    ELSE ValidateLoop(ps, i + 1)

ValidatePositions(ps) ==
    IF Len(ps) = 0 THEN Invalid(NoIndex, "empty")
    ELSE IF Len(ps) > MAX_POSITIONS THEN Invalid(NoIndex, "too_many")
    ELSE ValidateLoop(ps, 1)

(***************************************************************************)
(* valuation.py.  A price or a value is a cell: a NaN price gives a NaN    *)
(* value.  The inputs of the model keep quantity * entry_price divisible   *)
(* by leverage, so the margin is an integer, and every price a multiple of *)
(* 100, so a price shocked by a whole percentage is an integer.  A key of  *)
(* a price dict is <<asset, position_type>> or, for the bare asset,        *)
(* <<asset>>.                                                              *)
(***************************************************************************)
PriceKey(pos) == <<pos.asset, pos.position_type>>
AssetKey(pos) == <<pos.asset>>

\* a variant that looks a price up under the composite key only
PriceFoundCompositeOnly(pos, prices) == PriceKey(pos) \in DOMAIN prices

\* lines 90-96: current_prices.get(price_key), then current_prices.get(asset)
PriceFound(pos, prices) == PriceKey(pos) \in DOMAIN prices \/ AssetKey(pos) \in DOMAIN prices
LookupPrice(pos, prices) ==
    IF PriceKey(pos) \in DOMAIN prices THEN prices[PriceKey(pos)] ELSE prices[AssetKey(pos)]

\* lines 96-97 and 105-106: the two ValueErrors of calculate_position_value
PositionRaises(pos, prices) ==
    ~PriceFound(pos, prices) \/ pos.position_type \notin POSITION_TYPES

\* lines 6-67
SpotValue(q, p) == q * p
FuturesLongValue(q, e, p, lev) == (q * e) \div lev + (p - e) * q
\* a variant in which leverage multiplies the PnL of a short
FuturesShortValueLevered(q, e, p, lev) == (q * e) \div lev + (e - p) * q * lev

FuturesShortValue(q, e, p, lev) == (q * e) \div lev + (e - p) * q

\* lines 83-104, when nothing is raised
PositionValue(pos, prices) ==
    LET price == LookupPrice(pos, prices)
    IN  IF IsNa(price) THEN NaN
        ELSE IF pos.position_type = "spot" THEN Cell(SpotValue(pos.quantity, price[1]))
        ELSE IF pos.position_type = "futures_long"
             THEN Cell(FuturesLongValue(pos.quantity, pos.entry_price, price[1], LeverageOf(pos)))
        ELSE Cell(FuturesShortValue(pos.quantity, pos.entry_price, price[1], LeverageOf(pos)))

\* lines 122-125: total_value += ..., from position number i on
RECURSIVE PortfolioValueFrom(_, _, _, _)
PortfolioValueFrom(ps, prices, i, total) ==
    IF i > Len(ps) THEN total
    ELSE LET v == PositionValue(ps[i], prices)
         IN  PortfolioValueFrom(ps, prices, i + 1,
                 IF IsNa(total) \/ IsNa(v) THEN NaN ELSE Cell(total[1] + v[1]))

PortfolioValue(ps, prices) == PortfolioValueFrom(ps, prices, 1, Cell(0))

\* the ValueError of the first position that raises leaves calculate_portfolio_value
PortfolioRaises(ps, prices) == \E i \in DOMAIN ps : PositionRaises(ps[i], prices)

\* which of the two: the price is looked up (line 96) before the type is matched (line 105)
RaisedBy(ps, prices) ==
    LET i == Min({j \in DOMAIN ps : PositionRaises(ps[j], prices)})
    IN  IF ~PriceFound(ps[i], prices) THEN "MissingPrice" ELSE "UnknownPositionType"

\* a variant that shocks the spot prices only
ApplyPriceShockSpotOnly(base_prices, s) ==
    [k \in DOMAIN base_prices |->
        IF IsNa(base_prices[k]) THEN NaN
        ELSE IF Len(k) = 2 /\ k[2] # "spot" THEN base_prices[k]
        ELSE Cell((base_prices[k][1] * (100 + s)) \div 100)]

\* lines 128-141, for a shock of s percent
ApplyPriceShock(base_prices, s) ==
    [k \in DOMAIN base_prices |->
        IF IsNa(base_prices[k]) THEN NaN ELSE Cell((base_prices[k][1] * (100 + s)) \div 100)]

\* lines 160-173: delta += / -= quantity, from position number i on
RECURSIVE DeltaFrom(_, _, _)
DeltaFrom(ps, i, delta) ==
    IF i > Len(ps) THEN delta
    ELSE DeltaFrom(ps, i + 1,
             IF ps[i].position_type \in {"spot", "futures_long"} THEN delta + ps[i].quantity
             ELSE IF ps[i].position_type = "futures_short" THEN delta - ps[i].quantity
             ELSE delta)

\* a variant in which the short leg counts quantity * leverage
RECURSIVE DeltaLeveredFrom(_, _, _)
DeltaLeveredFrom(ps, i, delta) ==
    IF i > Len(ps) THEN delta
    ELSE DeltaLeveredFrom(ps, i + 1,
             IF ps[i].position_type \in {"spot", "futures_long"} THEN delta + ps[i].quantity
             ELSE IF ps[i].position_type = "futures_short"
                  THEN delta - ps[i].quantity * LeverageOf(ps[i])
             ELSE delta)

DeltaExposureLevered(ps) == DeltaLeveredFrom(ps, 1, 0)

DeltaExposure(ps) == DeltaFrom(ps, 1, 0)

\* lines 196-208: the row of one shock; return_pct is the exact fraction
SensitivityRow(ps, base_prices, base_value, s) ==
    LET shocked_value == PortfolioValue(ps, ApplyPriceShock(base_prices, s))
        pnl == IF IsNa(shocked_value) \/ IsNa(base_value) THEN NaN
               ELSE Cell(shocked_value[1] - base_value[1])
    IN  [price_change_pct |-> s,
         portfolio_value |-> shocked_value,
         pnl |-> pnl,
         return_pct |-> IF base_value = Cell(0) THEN Cell(Zero)
                        ELSE IF IsNa(pnl) THEN NaN
                        ELSE Cell([num |-> pnl[1] * 100, den |-> base_value[1]])]

\* lines 192-210, when nothing is raised
SensitivityTable(ps, base_prices, shocks) ==
    [i \in 1 .. Len(shocks) |->
        SensitivityRow(ps, base_prices, PortfolioValue(ps, base_prices), shocks[i])]

(***************************************************************************)
(* backend/src/utils.py.  A Python value is a record of its type t and its *)
(* content v: a float holds "nan", "inf", "-inf" or the text of a finite   *)
(* number, a dict a function from its keys, a list a sequence.             *)
(***************************************************************************)
PyFloat(x) == [t |-> "float", v |-> x]
PyInt(x) == [t |-> "int", v |-> x]
PyStr(x) == [t |-> "str", v |-> x]
PyBool(x) == [t |-> "bool", v |-> x]
PyNone == [t |-> "NoneType", v |-> "None"]
PyDict(f) == [t |-> "dict", v |-> f]
PyList(q) == [t |-> "list", v |-> q]

\* a variant that lets NaN through
SanitizeFloatInfOnly(value) ==
    IF value.t = "NoneType" THEN PyNone
    ELSE IF value.t \notin {"int", "float", "bool"} THEN PyNone
    ELSE IF value.v \in {"inf", "-inf"} THEN PyNone
    ELSE PyFloat(value.v)

\* lines 11-33, with default = None; float(value) of a float is the same float
SanitizeFloat(value) ==
    IF value.t = "NoneType" THEN PyNone
    ELSE IF value.t \notin {"int", "float", "bool"} THEN PyNone
    ELSE IF value.v \in {"inf", "-inf", "nan"} THEN PyNone
    ELSE PyFloat(value.v)

RECURSIVE SanitizeDict(_), SanitizeList(_)
\* lines 52-59 and 80-87: the four branches on the type of a value
SanitizeValue(value) ==
    IF value.t = "dict" THEN SanitizeDict(value)
    ELSE IF value.t = "list" THEN SanitizeList(value)
    ELSE IF value.t = "float" THEN SanitizeFloat(value)
    ELSE value

\* lines 36-61
SanitizeDict(d) ==
    IF d.t # "dict" THEN d
    ELSE PyDict([key \in DOMAIN d.v |-> SanitizeValue(d.v[key])])

\* lines 64-89
SanitizeList(l) ==
    IF l.t # "list" THEN l
    ELSE PyList([i \in 1 .. Len(l.v) |-> SanitizeValue(l.v[i])])

(***************************************************************************)
(* riskprofile.py: _extract_current_prices, lines 159-192.                 *)
(***************************************************************************)
ColumnOf(pos) ==
    IF pos.position_type = "spot" THEN <<pos.asset, "spot">> ELSE <<pos.asset, "futures_mark">>

\* the positions whose column the aligned table lacks
MissingColumns(table, ps) == {i \in DOMAIN ps : ColumnOf(ps[i]) \notin DOMAIN table.cols}

\* the prices of row `day` under the keys (asset, position_type)
PricesAt(table, ps, day) ==
    [k \in {PriceKey(ps[i]) : i \in {j \in DOMAIN ps : ColumnOf(ps[j]) \in DOMAIN table.cols}} |->
        LET i == CHOOSE j \in DOMAIN ps : PriceKey(ps[j]) = k
        IN  table.cols[ColumnOf(ps[i])][day]]

\* a variant that reads the first row of the table
ExtractCurrentPricesFirstRow(table, ps) ==
    IF MissingColumns(table, ps) # {}
    THEN [raised |-> TRUE, prices |-> EmptyDict]
    ELSE [raised |-> FALSE, prices |-> PricesAt(table, ps, table.lo)]

\* a variant that never raises for a missing column
ExtractCurrentPricesNoRaise(table, ps) ==
    [raised |-> FALSE, prices |-> PricesAt(table, ps, table.hi)]

\* raised = TRUE is ValueError("No spot/futures data available for asset")
ExtractCurrentPrices(table, ps) ==
    IF MissingColumns(table, ps) # {}
    THEN [raised |-> TRUE, prices |-> EmptyDict]
    ELSE [raised |-> FALSE, prices |-> PricesAt(table, ps, table.hi)]

(***************************************************************************)
(* riskprofile.py: _calculate_historical_portfolio_series, lines 204-225.  *)
(***************************************************************************)
RECURSIVE HistoricalValuesFrom(_, _, _, _)
HistoricalValuesFrom(table, ps, day, acc) ==
    IF day > table.hi THEN acc
    ELSE LET prices == PricesAt(table, ps, day)
         IN  HistoricalValuesFrom(table, ps, day + 1,
                 IF DOMAIN prices # {} THEN Append(acc, PortfolioValue(ps, prices)) ELSE acc)

\* a variant whose loop starts at the second row of the table
HistoricalValuesAfterFirst(table, ps) == HistoricalValuesFrom(table, ps, table.lo + 1, <<>>)

HistoricalValues(table, ps) == HistoricalValuesFrom(table, ps, table.lo, <<>>)

(***************************************************************************)
(* calculate_risk_profile, riskprofile.py lines 10-120, as a state         *)
(* machine.  pc names the stage that runs next; trace lists the stages     *)
(* that have finished, each with "ok" or "fail".                           *)
(***************************************************************************)
STAGES == <<"Validate", "Fetch", "Resample", "Align", "PriceSnapshot", "Valuate",
            "ComputeSeries", "ComputeMetrics", "Scenario", "Assemble">>
KINDS == {"spot", "mark", "funding"}
Tasks == KINDS \X AllAssets

Failure(reason, detail) == [kind |-> "Failure", reason |-> reason, detail |-> detail]
Finished(stage, how) == Append(trace, <<stage, how>>)

\* list(set(...)): every order of the set
Orders(S) == {q \in [1 .. Cardinality(S) -> S] : \A i, j \in DOMAIN q : q[i] = q[j] => i = j}

fetchVars == <<db, task, spot_data, futures_data, actual_days>>
dataVars == <<daily_spot, daily_futures, aligned, warnings>>
valueVars == <<current_prices, current_value, portfolio_values>>
graphVars == <<risk_metrics, dashboard>>
utilsVars == <<data, sanitized>>
chartVars == <<sensitivity_graph, delta_gauge, asset_returns, correlation_matrix,
               portfolio_variance, risk_contribution>>
agentVars == <<current_portfolio, reasonings, tool_call, chat_store, queue, clock, request>>
reportVars == <<shock_range, sensitivity_table, delta_exposure, graphVars, utilsVars,
                chartVars, agentVars>>

\* no graph function of graph.py lines 19-263 has been called
NoCharts ==
    /\ sensitivity_graph = None
    /\ delta_gauge = None
    /\ asset_returns = EmptyDict
    /\ correlation_matrix = EmptyDict
    /\ portfolio_variance = 0
    /\ risk_contribution = None

\* the agent has no tool context, no chat, no job and no call in progress
AgentIdle ==
    /\ current_portfolio = <<>>
    /\ reasonings = <<>>
    /\ tool_call = [tool |-> "none"]
    /\ chat_store = EmptyDict
    /\ queue = <<>>
    /\ clock = 0
    /\ request = EmptyDict

\* a variant in which the ValueError of _validate_positions does not end the call
ValidateThenFetch ==
    /\ pc = "Validate"
    /\ LET v == ValidatePositions(positions)
       IN  /\ assets' = <<"BTC">>
           /\ pc' = "Fetch"
           /\ trace' = Finished("Validate", IF v.ok THEN "ok" ELSE "fail")
           /\ result' = IF v.ok THEN result ELSE Failure("InvalidPortfolio", v)
    /\ UNCHANGED <<reportVars, positions, lookback_days, fetchVars, dataVars, data_warning, valueVars>>

\* lines 27-37
Validate ==
    /\ pc = "Validate"
    /\ LET v == ValidatePositions(positions)
       IN  IF v.ok
           THEN /\ assets' \in Orders({positions[i].asset : i \in DOMAIN positions})
                /\ pc' = "Fetch"
                /\ trace' = Finished("Validate", "ok")
                /\ UNCHANGED result
           ELSE /\ result' = Failure("InvalidPortfolio", v)
                /\ pc' = "Done"
                /\ trace' = Finished("Validate", "fail")
                /\ UNCHANGED assets
    /\ UNCHANGED <<reportVars, positions, lookback_days, fetchVars, dataVars, data_warning, valueVars>>

\* data_service.py lines 36-39: the spot coroutines are made and gathered
GatherSpot ==
    /\ pc = "Fetch"
    /\ task' = [t \in Tasks |->
                  IF t[1] = "spot" /\ t[2] \in Range(assets) THEN "running" ELSE task[t]]
    /\ pc' = "AwaitSpot"
    /\ UNCHANGED <<reportVars, positions, lookback_days, trace, result, assets, db, spot_data,
                   futures_data, actual_days, dataVars, data_warning, valueVars>>

\* one fetch coroutine returns or raises
TaskDone(t) ==
    /\ task[t] = "running"
    /\ task' = [task EXCEPT ![t] = "done"]
    /\ UNCHANGED <<reportVars, positions, lookback_days, pc, trace, result, assets, db, spot_data,
                   futures_data, actual_days, dataVars, data_warning, valueVars>>

\* a variant in which the first finished spot fetch ends the wait
SpotJoinedAny == \E a \in Range(assets) : task[<<"spot", a>>] = "done"

\* line 39: await asyncio.gather(*spot_tasks) returns
SpotJoined == \A a \in Range(assets) : task[<<"spot", a>>] = "done"

\* lines 48-51: the await of the two nested gathers returns
FuturesJoined ==
    \A a \in Range(assets) : task[<<"mark", a>>] = "done" /\ task[<<"funding", a>>] = "done"

\* lines 39-51: after the spot join the mark and funding coroutines are made and gathered
GatherFutures ==
    /\ pc = "AwaitSpot"
    /\ SpotJoined
    /\ task' = [t \in Tasks |->
                  IF t[1] \in {"mark", "funding"} /\ t[2] \in Range(assets)
                  THEN "running" ELSE task[t]]
    /\ pc' = "AwaitFutures"
    /\ UNCHANGED <<reportVars, positions, lookback_days, trace, result, assets, db, spot_data,
                   futures_data, actual_days, dataVars, data_warning, valueVars>>

\* a variant that also warns at exactly MIN_HISTORY_DAYS
DaysWarningInclusive(days) ==
    IF days <= MIN_HISTORY_DAYS
    THEN [kind |-> "str", days |-> Cell(days), align |-> <<>>]
    ELSE None

\* riskprofile.py lines 45-48
DaysWarning(days) ==
    IF days < MIN_HISTORY_DAYS
    THEN [kind |-> "str", days |-> Cell(days), align |-> <<>>]
    ELSE None

\* data_service.py lines 48-117 and riskprofile.py lines 40-48
FetchReturn ==
    /\ pc = "AwaitFutures"
    /\ FuturesJoined
    /\ spot_data' = ProcessSpot(assets, db)
    /\ futures_data' = ProcessFutures(assets, db)
    /\ actual_days' = MinDays(lookback_days, spot_data')
    /\ data_warning' = DaysWarning(actual_days')
    /\ pc' = "Resample"
    /\ trace' = Finished("Fetch", "ok")
    /\ UNCHANGED <<reportVars, positions, lookback_days, result, assets, db, task, dataVars, valueVars>>

\* riskprofile.py line 51
Resample ==
    /\ pc = "Resample"
    /\ daily_spot' = ResampleAllSpot(spot_data)
    /\ daily_futures' = ResampleAllFutures(futures_data)
    /\ pc' = "Align"
    /\ trace' = Finished("Resample", "ok")
    /\ UNCHANGED <<reportVars, positions, lookback_days, result, assets, fetchVars, aligned, warnings,
                   data_warning, valueVars>>

\* riskprofile.py lines 58-63
WithAlignment(dw, ws) ==
    IF ws = <<>> THEN dw
    ELSE IF dw # None THEN [dw EXCEPT !.align = ws]
    ELSE [kind |-> "str", days |-> NaN, align |-> ws]

\* riskprofile.py lines 54-65
Align ==
    /\ pc = "Align"
    /\ LET r == AlignTimeSeries(assets, daily_spot, daily_futures)
       IN  IF r.raised
           THEN /\ result' = Failure("NoDataAvailable", Valid)
                /\ pc' = "Done"
                /\ trace' = Finished("Align", "fail")
                /\ UNCHANGED <<aligned, warnings, data_warning>>
           ELSE /\ aligned' = r.aligned
                /\ warnings' = r.warnings
                /\ data_warning' = WithAlignment(data_warning, r.warnings)
                /\ pc' = "PriceSnapshot"
                /\ trace' = Finished("Align", "ok")
                /\ UNCHANGED result
    /\ UNCHANGED <<reportVars, positions, lookback_days, assets, fetchVars, daily_spot, daily_futures,
                   valueVars>>

\* riskprofile.py line 68
PriceSnapshot ==
    /\ pc = "PriceSnapshot"
    /\ LET r == ExtractCurrentPrices(aligned, positions)
       IN  IF r.raised
           THEN /\ result' = Failure("MissingPrice", Valid)
                /\ pc' = "Done"
                /\ trace' = Finished("PriceSnapshot", "fail")
                /\ UNCHANGED current_prices
           ELSE /\ current_prices' = r.prices
                /\ pc' = "Valuate"
                /\ trace' = Finished("PriceSnapshot", "ok")
                /\ UNCHANGED result
    /\ UNCHANGED <<reportVars, positions, lookback_days, assets, fetchVars, dataVars, data_warning,
                   current_value, portfolio_values>>

\* riskprofile.py line 72
Valuate ==
    /\ pc = "Valuate"
    /\ IF PortfolioRaises(positions, current_prices)
       THEN /\ result' = Failure("MissingPrice", Valid)
            /\ pc' = "Done"
            /\ trace' = Finished("Valuate", "fail")
            /\ UNCHANGED current_value
       ELSE /\ current_value' = PortfolioValue(positions, current_prices)
            /\ pc' = "ComputeSeries"
            /\ trace' = Finished("Valuate", "ok")
            /\ UNCHANGED result
    /\ UNCHANGED <<reportVars, positions, lookback_days, assets, fetchVars, dataVars,
                   data_warning, current_prices, portfolio_values>>

\* riskprofile.py lines 76-90
ComputeSeries ==
    /\ pc = "ComputeSeries"
    /\ portfolio_values' = HistoricalValues(aligned, positions)
    /\ sensitivity_table' = SensitivityTable(positions, current_prices, shock_range)
    /\ pc' = "ComputeMetrics"
    /\ trace' = Finished("ComputeSeries", "ok")
    /\ UNCHANGED <<shock_range, delta_exposure, graphVars, utilsVars, chartVars, agentVars, positions,
                   lookback_days, result, assets, fetchVars, dataVars,
                   data_warning, current_prices, current_value>>

\* riskprofile.py lines 93-105: _calculate_risk_metrics and calculate_delta_exposure
\* are called; the estimators of metrics.py, which is not among the sources, return
\* or raise, and an exception leaves calculate_risk_profile
ComputeMetrics ==
    /\ pc = "ComputeMetrics"
    /\ \E returned \in BOOLEAN :
          IF returned
          THEN /\ delta_exposure' = Cell(DeltaExposure(positions))
               /\ pc' = "Scenario"
               /\ trace' = Finished("ComputeMetrics", "ok")
               /\ UNCHANGED result
          ELSE /\ result' = Failure("Exception", Valid)
               /\ pc' = "Done"
               /\ trace' = Finished("ComputeMetrics", "fail")
               /\ UNCHANGED delta_exposure
    /\ UNCHANGED <<shock_range, sensitivity_table, graphVars, utilsVars, chartVars, agentVars, positions,
                   lookback_days, assets, fetchVars, dataVars, data_warning, valueVars>>

\* riskprofile.py line 108: scenarios.run_all_scenarios, which is not among the
\* sources, returns or raises
Scenario ==
    /\ pc = "Scenario"
    /\ \E returned \in BOOLEAN :
          IF returned
          THEN /\ pc' = "Assemble"
               /\ trace' = Finished("Scenario", "ok")
               /\ UNCHANGED result
          ELSE /\ result' = Failure("Exception", Valid)
               /\ pc' = "Done"
               /\ trace' = Finished("Scenario", "fail")
    /\ UNCHANGED <<reportVars, positions, lookback_days, assets, fetchVars, dataVars,
                   data_warning, valueVars>>

\* riskprofile.py lines 111-120
Assemble ==
    /\ pc = "Assemble"
    /\ result' = [kind |-> "Success",
                  current_portfolio_value |-> current_value,
                  sensitivity_analysis |-> sensitivity_table,
                  delta_exposure |-> delta_exposure,
                  data_availability_warning |-> data_warning]
    /\ pc' = "Done"
    /\ trace' = Finished("Assemble", "ok")
    /\ UNCHANGED <<reportVars, positions, lookback_days, assets, fetchVars, dataVars, data_warning,
                   valueVars>>

(***************************************************************************)
(* Inputs.                                                                 *)
(***************************************************************************)
Pos(a, type, q, e, lev) ==
    [asset |-> a, quantity |-> q, position_type |-> type, entry_price |-> e, leverage |-> lev]

\* the dict without the keys of K
Without(pos, K) == [k \in (DOMAIN pos) \ K |-> pos[k]]

BtcSpot == Pos("BTC", "spot", 2, 100, 1)
BtcLong == Pos("BTC", "futures_long", 2, 100, 2)
BtcShort == Pos("BTC", "futures_short", 2, 100, 2)
EthShort == Pos("ETH", "futures_short", 2, 50, 2)
EthSpot == Without(Pos("ETH", "spot", 2, 50, 1), {"leverage"})

NoTasks == [t \in Tasks |-> "none"]

\* settings.SENSITIVITY_RANGE of the deployment, in percent
SENSITIVITY_RANGE == <<0 - 30, 0 - 5, 0, 5, 30>>
NotFetched == [spot |-> Fetched({}), mark |-> Fetched({}), funding |-> Fetched({})]

\* nothing computed yet by valuation.py, graph.py and utils.py
NothingReported ==
    /\ shock_range = SENSITIVITY_RANGE
    /\ sensitivity_table = <<>>
    /\ delta_exposure = NaN
    /\ risk_metrics = EmptyDict
    /\ dashboard = None
    /\ data = None
    /\ sanitized = None
    /\ NoCharts
    /\ AgentIdle

\* the state when calculate_risk_profile is called with (ps, days) against database d
Called(ps, days, d) ==
    /\ positions = ps
    /\ lookback_days = days
    /\ db = d
    /\ pc = "Validate"
    /\ trace = <<>>
    /\ result = None
    /\ assets = <<>>
    /\ task = NoTasks
    /\ spot_data = EmptyDict
    /\ futures_data = EmptyDict
    /\ actual_days = 0
    /\ daily_spot = EmptyDict
    /\ daily_futures = EmptyDict
    /\ aligned = None
    /\ warnings = <<>>
    /\ data_warning = None
    /\ current_prices = EmptyDict
    /\ current_value = NaN
    /\ portfolio_values = <<>>
    /\ NothingReported

(***************************************************************************)
(* Spec: whole requests, with small portfolios against databases that      *)
(* cover the lookback window fully, partly (early or late) or not at all.  *)
(***************************************************************************)
LOOKBACKS == {7, 30}

ProfilePositions ==
    {<<BtcSpot>>, <<BtcLong>>, <<BtcSpot, EthShort>>, <<BtcSpot, BtcShort>>,
     <<>>, <<[BtcSpot EXCEPT !.quantity = 0]>>, <<EthSpot, Without(BtcLong, {"asset"})>>}

RequestedAssets(ps) ==
    {ps[i].asset : i \in {j \in DOMAIN ps : "asset" \in DOMAIN ps[j]}}

Full(L) == {<<0, 0>>, <<L, 0>>}
Early == {<<0, 0>>, <<1, 0>>}
Late(L) == {<<L, 0>>}
AlmostFull(L) == {<<0, 1>>, <<L, 0>>}
OffBeat == {<<0, 1>>}

BtcEntries(L) ==
    {[spot |-> s, mark |-> m, funding |-> f] :
        s \in {Failed, Fetched({})}
               \cup {Fetched(SpotRows("BTC", T)) : T \in {Full(L), Early, Late(L), AlmostFull(L)}},
        m \in {Failed, Fetched({})} \cup {Fetched(MarkRows("BTC", T)) : T \in {Full(L), Late(L)}},
        f \in {Failed, Fetched({})} \cup {Fetched(FundingRows("BTC", T)) : T \in {Full(L), OffBeat}}}

EthEntries(L) ==
    {[spot |-> s, mark |-> m, funding |-> f] :
        s \in {Failed} \cup {Fetched(SpotRows("ETH", T)) : T \in {Full(L), Early, Late(L)}},
        m \in {Failed, Fetched(MarkRows("ETH", Full(L)))},
        f \in {Fetched({}), Fetched(FundingRows("ETH", Full(L)))}}

ProfileDbs(A, L) ==
    {[a \in AllAssets |-> IF a = "BTC" THEN b ELSE e] :
        b \in (IF "BTC" \in A THEN BtcEntries(L) ELSE {NotFetched}),
        e \in (IF "ETH" \in A THEN EthEntries(L) ELSE {NotFetched})}

Init ==
    \E ps \in ProfilePositions, L \in LOOKBACKS :
        \E d \in ProfileDbs(RequestedAssets(ps), L) : Called(ps, L, d)

Next ==
    \/ Validate
    \/ GatherSpot
    \/ \E t \in Tasks : TaskDone(t)
    \/ GatherFutures
    \/ FetchReturn
    \/ Resample
    \/ Align
    \/ PriceSnapshot
    \/ Valuate
    \/ ComputeSeries
    \/ ComputeMetrics
    \/ Scenario
    \/ Assemble

Spec == Init /\ [][Next]_vars

(***************************************************************************)
(* SpecValidate: _validate_positions on position lists with missing keys   *)
(* and out-of-range values, and on lists at and over the maximum length.   *)
(***************************************************************************)
\* every combination of present and absent keys and of values, for lists of one position
AnyPosition ==
    {Without(Pos("BTC", type, q, e, lev), K) :
        type \in {"spot", "futures_short", "option"}, q \in {0, 2}, e \in {0, 100},
        lev \in {0, 1, MAX_LEVERAGE, MAX_LEVERAGE + 1},
        K \in SUBSET {"asset", "quantity", "position_type", "entry_price", "leverage"}}

\* positions with at most one thing wrong, for the longer lists
OneDefect ==
    {BtcSpot, BtcShort, Without(BtcSpot, {"leverage"}),
     [BtcLong EXCEPT !.leverage = MAX_LEVERAGE],
     Without(BtcSpot, {"asset"}), Without(BtcSpot, {"quantity"}),
     Without(BtcSpot, {"position_type"}), Without(BtcSpot, {"entry_price"}),
     [BtcSpot EXCEPT !.position_type = "option"],
     [BtcSpot EXCEPT !.quantity = 0], [BtcSpot EXCEPT !.quantity = 0 - 2],
     [BtcSpot EXCEPT !.entry_price = 0],
     [BtcLong EXCEPT !.leverage = 0], [BtcLong EXCEPT !.leverage = MAX_LEVERAGE + 1]}

\* a list of n good positions, with position number k (if any) replaced by p
LongList(n, k, p) == [i \in 1 .. n |-> IF i = k THEN p ELSE BtcSpot]

ValidateInputs ==
    {<<>>} \cup {<<p>> : p \in AnyPosition}
    \cup UNION {[1 .. n -> OneDefect] : n \in 2 .. MaxLen}
    \cup {LongList(n, k, p) : n \in {MAX_POSITIONS, MAX_POSITIONS + 1},
                              k \in {0, 1, MAX_POSITIONS},
                              p \in {[BtcSpot EXCEPT !.quantity = 0]}}

InitValidate ==
    \E ps \in ValidateInputs : Called(ps, 30, [a \in AllAssets |-> NotFetched])

SpecValidate == InitValidate /\ [][Validate]_vars

(***************************************************************************)
(* SpecData: resample_to_daily and align_time_series on what               *)
(* fetch_portfolio_data returns for a database holding any MaxObs          *)
(* observations of the market of days 0..MaxDay.                           *)
(***************************************************************************)
RawTimes == (0 .. MaxDay) \X (0 .. MaxSlot)
DataSeries == {<<"BTC", "spot">>, <<"BTC", "mark">>, <<"BTC", "funding">>, <<"ETH", "spot">>}
DataSlots == DataSeries \X RawTimes

RECURSIVE SubsetsUpTo(_, _)
SubsetsUpTo(S, k) ==
    IF k = 0 THEN {{}}
    ELSE LET P == SubsetsUpTo(S, k - 1) IN P \cup UNION {{T \cup {x} : x \in S} : T \in P}

TimesOf(obs, a, kind) == {o[2] : o \in {x \in obs : x[1] = <<a, kind>>}}

DataDb(obs) ==
    [a \in AllAssets |->
        [spot |-> Fetched(SpotRows(a, TimesOf(obs, a, "spot"))),
         mark |-> Fetched(MarkRows(a, TimesOf(obs, a, "mark"))),
         funding |-> Fetched(FundingRows(a, TimesOf(obs, a, "funding")))]]

DataPositions == <<BtcLong, EthSpot>>
DataAssets == <<"BTC", "ETH">>

\* the state in which fetch_portfolio_data has returned
Fetched2(ps, days, order, d) ==
    /\ positions = ps
    /\ lookback_days = days
    /\ db = d
    /\ pc = "Resample"
    /\ trace = <<<<"Validate", "ok">>, <<"Fetch", "ok">>>>
    /\ result = None
    /\ assets = order
    /\ task = [t \in Tasks |-> IF t[2] \in Range(order) THEN "done" ELSE "none"]
    /\ spot_data = ProcessSpot(order, d)
    /\ futures_data = ProcessFutures(order, d)
    /\ actual_days = MinDays(days, ProcessSpot(order, d))
    /\ data_warning = DaysWarning(MinDays(days, ProcessSpot(order, d)))
    /\ daily_spot = EmptyDict
    /\ daily_futures = EmptyDict
    /\ aligned = None
    /\ warnings = <<>>
    /\ current_prices = EmptyDict
    /\ current_value = NaN
    /\ portfolio_values = <<>>
    /\ NothingReported

InitData ==
    \E obs \in SubsetsUpTo(DataSlots, MaxObs) :
        Fetched2(DataPositions, 30, DataAssets, DataDb(obs))

NextData == Resample \/ Align

SpecData == InitData /\ [][NextData]_vars

(***************************************************************************)
(* valuation.py called on its own: calculate_portfolio_value, then         *)
(* calculate_delta_exposure, then calculate_sensitivity_table, on a list   *)
(* of positions, a price dict and a shock range.  The caller may then      *)
(* double the leverage of every futures position and call the three again. *)
(***************************************************************************)
MaxHeld == 2
MaxDoubled == 8

\* quantity * entry_price is a multiple of MaxDoubled in every position
ValuedPositions ==
    {Pos("BTC", "spot", 2, 100, 1),
     Pos("BTC", "futures_long", 2, 100, 2),
     Pos("BTC", "futures_short", 2, 100, 4),
     Pos("BTC", "futures_short", 4, 100, 1),
     Pos("ETH", "futures_short", 1, 200, 1),
     Pos("ETH", "futures_long", 1, 400, 2),
     Without(Pos("ETH", "spot", 1, 200, 1), {"leverage"}),
     Pos("ETH", "option", 1, 200, 1)}

ValuedLists == UNION {[1 .. n -> ValuedPositions] : n \in 0 .. MaxHeld}

\* the dict with the given <<key, price>> items
PriceDict(items) ==
    [k \in {it[1] : it \in items} |-> (CHOOSE it \in items : it[1] = k)[2]]

ValuedPrices ==
    {PriceDict({<<(<<a, t>>), Cell(IF a = "BTC" THEN 300 ELSE 400)>> :
                    a \in AllAssets, t \in POSITION_TYPES}),
     PriceDict({<<(<<"BTC">>), Cell(100)>>, <<(<<"ETH">>), Cell(400)>>}),
     PriceDict({<<(<<"BTC", "spot">>), Cell(300)>>, <<(<<"BTC">>), Cell(100)>>}),
     PriceDict({<<(<<"BTC", "spot">>), NaN>>, <<(<<"BTC">>), Cell(200)>>,
                <<(<<"ETH">>), Cell(100)>>}),
     EmptyDict}

ShockRanges ==
    {SENSITIVITY_RANGE, <<10, 0 - 50, 0>>, <<0, 0>>, <<0 - 100, 100>>, <<>>}

pipelineVars == <<lookback_days, trace, assets, fetchVars, dataVars, data_warning,
                  portfolio_values, graphVars, utilsVars, chartVars, agentVars>>

InitValuation ==
    \E ps \in ValuedLists, prices \in ValuedPrices, shocks \in ShockRanges :
        /\ positions = ps
        /\ lookback_days = 0
        /\ db = [a \in AllAssets |-> NotFetched]
        /\ pc = "calculate_portfolio_value"
        /\ trace = <<>>
        /\ result = None
        /\ assets = <<>>
        /\ task = NoTasks
        /\ spot_data = EmptyDict
        /\ futures_data = EmptyDict
        /\ actual_days = 0
        /\ daily_spot = EmptyDict
        /\ daily_futures = EmptyDict
        /\ aligned = None
        /\ warnings = <<>>
        /\ data_warning = None
        /\ current_prices = prices
        /\ current_value = NaN
        /\ portfolio_values = <<>>
        /\ shock_range = shocks
        /\ sensitivity_table = <<>>
        /\ delta_exposure = NaN
        /\ risk_metrics = EmptyDict
        /\ dashboard = None
        /\ data = None
        /\ sanitized = None
        /\ NoCharts
        /\ AgentIdle

\* valuation.py lines 109-125; the ValueError of lines 96-97 or 105-106 ends the run
CallPortfolioValue ==
    /\ pc = "calculate_portfolio_value"
    /\ IF PortfolioRaises(positions, current_prices)
       THEN /\ result' = Failure(RaisedBy(positions, current_prices), Valid)
            /\ pc' = "Done"
            /\ UNCHANGED current_value
       ELSE /\ current_value' = PortfolioValue(positions, current_prices)
            /\ pc' = "calculate_delta_exposure"
            /\ UNCHANGED result
    /\ UNCHANGED <<pipelineVars, positions, current_prices, shock_range, sensitivity_table,
                   delta_exposure>>

\* valuation.py lines 144-173
CallDeltaExposure ==
    /\ pc = "calculate_delta_exposure"
    /\ delta_exposure' = Cell(DeltaExposure(positions))
    /\ pc' = "calculate_sensitivity_table"
    /\ UNCHANGED <<pipelineVars, positions, current_prices, current_value, shock_range,
                   sensitivity_table, result>>

\* valuation.py lines 176-210
CallSensitivityTable ==
    /\ pc = "calculate_sensitivity_table"
    /\ sensitivity_table' = SensitivityTable(positions, current_prices, shock_range)
    /\ pc' = "Done"
    /\ UNCHANGED <<pipelineVars, positions, current_prices, current_value, shock_range,
                   delta_exposure, result>>

IsFutures(pos) == pos.position_type \in {"futures_long", "futures_short"}

\* the same position at leverage lev
WithLeverage(pos, lev) ==
    [k \in DOMAIN pos \cup {"leverage"} |-> IF k = "leverage" THEN lev ELSE pos[k]]

Doubled(ps) ==
    [i \in DOMAIN ps |-> IF IsFutures(ps[i]) THEN WithLeverage(ps[i], 2 * LeverageOf(ps[i]))
                         ELSE ps[i]]

\* the caller repeats the three calls with every futures leverage doubled
DoubleLeverage ==
    /\ pc = "Done"
    /\ result = None
    /\ \E i \in DOMAIN positions : IsFutures(positions[i])
    /\ \A i \in DOMAIN positions : IsFutures(positions[i]) => 2 * LeverageOf(positions[i]) <= MaxDoubled
    /\ positions' = Doubled(positions)
    /\ pc' = "calculate_portfolio_value"
    /\ UNCHANGED <<pipelineVars, current_prices, current_value, shock_range, sensitivity_table,
                   delta_exposure, result>>

NextValuation ==
    CallPortfolioValue \/ CallDeltaExposure \/ CallSensitivityTable \/ DoubleLeverage

SpecValuation == InitValuation /\ [][NextValuation]_vars

(***************************************************************************)
(* SpecSanitize: sanitize_dict on payloads of the shape of a risk profile  *)
(* (a number, a list of row dicts, a dict of metrics holding a matrix),    *)
(* then on its own output.                                                 *)
(***************************************************************************)
MaxRows == 2

Floats == {PyFloat("nan"), PyFloat("inf"), PyFloat("-inf"), PyFloat("1.5")}
Atoms == Floats \cup {PyInt("7"), PyStr("nan"), PyBool("True"), PyNone}

RowDicts == {PyDict([k \in {"pnl"} |-> a]) : a \in Atoms}
RowLists == UNION {{PyList(q) : q \in [1 .. n -> RowDicts]} : n \in 0 .. MaxRows}
Matrices == {PyList(<<PyList(<<PyFloat("1.5"), a>>)>>) : a \in Floats} \cup {PyList(<<>>)}
MetricDicts ==
    {PyDict([k \in {"sharpe_ratio", "correlation_matrix"} |->
                IF k = "sharpe_ratio" THEN a ELSE m]) :
        a \in {PyFloat("inf"), PyFloat("1.5"), PyNone}, m \in Matrices}
    \cup {PyDict(EmptyDict)}

Payloads ==
    {PyDict([k \in {"current_portfolio_value", "sensitivity_analysis", "risk_metrics"} |->
                IF k = "current_portfolio_value" THEN a
                ELSE IF k = "sensitivity_analysis" THEN rows ELSE metrics]) :
        a \in Atoms, rows \in RowLists, metrics \in MetricDicts}
    \cup {PyDict(EmptyDict)}

InitSanitize ==
    \E payload \in Payloads :
        /\ positions = <<>>
        /\ lookback_days = 0
        /\ db = [a \in AllAssets |-> NotFetched]
        /\ pc = "sanitize_dict"
        /\ trace = <<>>
        /\ result = None
        /\ assets = <<>>
        /\ task = NoTasks
        /\ spot_data = EmptyDict
        /\ futures_data = EmptyDict
        /\ actual_days = 0
        /\ daily_spot = EmptyDict
        /\ daily_futures = EmptyDict
        /\ aligned = None
        /\ warnings = <<>>
        /\ data_warning = None
        /\ current_prices = EmptyDict
        /\ current_value = NaN
        /\ portfolio_values = <<>>
        /\ shock_range = SENSITIVITY_RANGE
        /\ sensitivity_table = <<>>
        /\ delta_exposure = NaN
        /\ risk_metrics = EmptyDict
        /\ dashboard = None
        /\ data = payload
        /\ sanitized = None
        /\ NoCharts
        /\ AgentIdle

\* utils.py lines 36-61: sanitize_dict(data)
Sanitize ==
    /\ pc = "sanitize_dict"
    /\ sanitized' = SanitizeDict(data)
    /\ pc' = "Sanitized"
    /\ UNCHANGED <<positions, lookback_days, trace, result, assets, fetchVars, dataVars,
                   data_warning, valueVars, shock_range, sensitivity_table, delta_exposure,
                   graphVars, chartVars, agentVars, data>>

\* sanitize_dict is applied to its own output
SanitizeAgain ==
    /\ pc = "Sanitized"
    /\ data' = sanitized
    /\ sanitized' = SanitizeDict(sanitized)
    /\ pc' = "Done"
    /\ UNCHANGED <<positions, lookback_days, trace, result, assets, fetchVars, dataVars,
                   data_warning, valueVars, shock_range, sensitivity_table, delta_exposure,
                   graphVars, chartVars, agentVars>>

NextSanitize == Sanitize \/ SanitizeAgain

SpecSanitize == InitSanitize /\ [][NextSanitize]_vars

(***************************************************************************)
(* backend/src/analysis/graph.py: calculate_alert_dashboard, lines 266-480.*)
(* A number is a cell holding an exact fraction [num, den] with den > 0,   *)
(* kept in lowest terms, or NaN; every comparison with NaN is false, as in *)
(* Python.  A score is held in tenths of a point, as round(score, 1)       *)
(* leaves it.                                                              *)
(***************************************************************************)
Abs(i) == IF i < 0 THEN 0 - i ELSE i

RECURSIVE Gcd(_, _)
Gcd(a, b) == IF b = 0 THEN a ELSE Gcd(b, a % b)

Frac(n, d) ==
    LET g == Gcd(Abs(n), d) IN [num |-> n \div g, den |-> d \div g]

FAdd(a, b) == Frac(a.num * b.den + b.num * a.den, a.den * b.den)
FSub(a, b) == Frac(a.num * b.den - b.num * a.den, a.den * b.den)
FMul(a, b) == Frac(a.num * b.num, a.den * b.den)
\* a / b for b > 0
FDiv(a, b) == Frac(a.num * b.den, a.den * b.num)
FLeq(a, b) == a.num * b.den <= b.num * a.den
FLt(a, b) == a.num * b.den < b.num * a.den
FMax(a, b) == IF FLeq(a, b) THEN b ELSE a
FAbs(a) == [num |-> Abs(a.num), den |-> a.den]

\* x <= y, x < y, x >= y, x > y for a cell x and a fraction y
Leq(x, y) == ~IsNa(x) /\ FLeq(x[1], y)
Lt(x, y) == ~IsNa(x) /\ FLt(x[1], y)
Geq(x, y) == ~IsNa(x) /\ FLeq(y, x[1])
Gt(x, y) == ~IsNa(x) /\ FLt(y, x[1])

\* round(score, 1) of a score >= 0, in tenths, ties to even
RoundTenths(score) ==
    LET n == 10 * score.num
        q == n \div score.den
        r == n % score.den
    IN  IF 2 * r > score.den \/ (2 * r = score.den /\ q % 2 = 1) THEN q + 1 ELSE q

\* lines 309-316, 332-339, 395-402
StatusOf(score) ==
    IF FLeq(Frac(18, 1), score) THEN "good"
    ELSE IF FLeq(Frac(10, 1), score) THEN "fair"
    ELSE IF FLeq(Frac(5, 1), score) THEN "warning"
    ELSE "poor"

Component(score, status) == [score |-> RoundTenths(score), status |-> status]

\* lines 308, 331, 394: max(0, 25 - ((x - from) / span) * 25)
LinearScore(x, from, span) ==
    FMax(Zero, FSub(Frac(25, 1), FMul(FDiv(FSub(x, from), span), Frac(25, 1))))

\* lines 302 and 354: abs(delta_exposure) / current_value if current_value > 0 else 0
DeltaNormalized(delta, value) ==
    IF ~IsNa(value) /\ value[1] > 0
    THEN IF IsNa(delta) THEN NaN ELSE Cell(Frac(Abs(delta[1]), value[1]))
    ELSE Cell(Zero)

\* lines 303-321
DeltaComponent(dn) ==
    IF Leq(dn, Frac(5, 100)) THEN Component(Frac(25, 1), "excellent")
    ELSE IF Leq(dn, Frac(50, 100))
         THEN LET delta_score == LinearScore(dn[1], Frac(5, 100), Frac(45, 100))
              IN  Component(delta_score, StatusOf(delta_score))
    ELSE Component(Zero, "poor")

\* risk_metrics.get(key, 0)
MetricOf(metrics, key) == IF key \in DOMAIN metrics THEN metrics[key] ELSE Cell(Zero)

\* lines 325-344
VolatilityComponent(volatility) ==
    IF Leq(volatility, Frac(30, 100)) THEN Component(Frac(25, 1), "excellent")
    ELSE IF Leq(volatility, Frac(1, 1))
         THEN LET vol_score == LinearScore(volatility[1], Frac(30, 100), Frac(70, 100))
              IN  Component(vol_score, StatusOf(vol_score))
    ELSE Component(Zero, "poor")

\* a variant whose branch for 0.5 <= sharpe < 1.0 does not subtract 0.5
SharpeComponentUnshifted(dn, sharpe) ==
    IF Lt(dn, Frac(5, 100)) THEN Component(Frac(125, 10), "fair")
    ELSE IF Geq(sharpe, Frac(1, 1)) THEN Component(Frac(25, 1), "excellent")
    ELSE IF Geq(sharpe, Frac(5, 10))
         THEN Component(FAdd(Frac(18, 1), FMul(FDiv(sharpe[1], Frac(5, 10)), Frac(7, 1))), "good")
    ELSE IF Geq(sharpe, Zero)
         THEN Component(FAdd(Frac(10, 1), FMul(FDiv(sharpe[1], Frac(5, 10)), Frac(8, 1))), "fair")
    ELSE IF Geq(sharpe, Frac(0 - 5, 10))
         THEN Component(FAdd(Frac(5, 1),
                             FMul(FDiv(FAdd(sharpe[1], Frac(5, 10)), Frac(5, 10)), Frac(5, 1))),
                        "warning")
    ELSE Component(Zero, "poor")

\* lines 351-384
SharpeComponent(dn, sharpe) ==
    IF Lt(dn, Frac(5, 100)) THEN Component(Frac(125, 10), "fair")
    ELSE IF Geq(sharpe, Frac(1, 1)) THEN Component(Frac(25, 1), "excellent")
    ELSE IF Geq(sharpe, Frac(5, 10))
         THEN Component(FAdd(Frac(18, 1),
                             FMul(FDiv(FSub(sharpe[1], Frac(5, 10)), Frac(5, 10)), Frac(7, 1))),
                        "good")
    ELSE IF Geq(sharpe, Zero)
         THEN Component(FAdd(Frac(10, 1), FMul(FDiv(sharpe[1], Frac(5, 10)), Frac(8, 1))), "fair")
    ELSE IF Geq(sharpe, Frac(0 - 5, 10))
         THEN Component(FAdd(Frac(5, 1),
                             FMul(FDiv(FAdd(sharpe[1], Frac(5, 10)), Frac(5, 10)), Frac(5, 1))),
                        "warning")
    ELSE Component(Zero, "poor")

\* line 388: max((pos.get("leverage", 1.0) for pos in positions), default=1.0)
MaxLeverage(ps) == IF Len(ps) = 0 THEN 1 ELSE Max({LeverageOf(ps[i]) : i \in DOMAIN ps})

\* lines 389-407
LeverageComponent(max_leverage) ==
    IF max_leverage <= 2 THEN Component(Frac(25, 1), "excellent")
    ELSE IF max_leverage <= 20
         THEN LET lev_score == LinearScore(Frac(max_leverage, 1), Frac(2, 1), Frac(18, 1))
              IN  Component(lev_score, StatusOf(lev_score))
    ELSE Component(Zero, "poor")

COMPONENTS == {"delta_neutral", "volatility", "sharpe_ratio", "leverage"}

\* lines 298-407
HealthComponents(metrics, value, ps, delta) ==
    LET dn == DeltaNormalized(delta, value)
    IN  [c \in COMPONENTS |->
            IF c = "delta_neutral" THEN DeltaComponent(dn)
            ELSE IF c = "volatility"
                 THEN VolatilityComponent(MetricOf(metrics, "portfolio_volatility_annual"))
            ELSE IF c = "sharpe_ratio" THEN SharpeComponent(dn, MetricOf(metrics, "sharpe_ratio"))
            ELSE LeverageComponent(MaxLeverage(ps))]

\* line 410: sum(comp["score"] for comp in health_components.values())
HealthScore(components) ==
    components["delta_neutral"].score + components["volatility"].score
        + components["sharpe_ratio"].score + components["leverage"].score

\* a variant that assesses every futures position
AssessedAnyFutures(pos) == IsFutures(pos)

\* line 415
Assessed(pos) == IsFutures(pos) /\ (IF "leverage" \in DOMAIN pos THEN pos.leverage ELSE 1) > 1

\* line 423: current_prices.get(price_key, entry_price)
CurrentPrice(pos, prices) ==
    IF PriceKey(pos) \in DOMAIN prices
    THEN (IF IsNa(prices[PriceKey(pos)]) THEN NaN ELSE Cell(Frac(prices[PriceKey(pos)][1], 1)))
    ELSE Cell(Frac(pos.entry_price, 1))

\* lines 429 and 432
LiquidationPrice(pos) ==
    LET shift == FDiv(Frac(9, 10), Frac(LeverageOf(pos), 1))
    IN  FMul(Frac(pos.entry_price, 1),
             IF pos.position_type = "futures_long" THEN FSub(Frac(1, 1), shift)
             ELSE FAdd(Frac(1, 1), shift))

\* lines 430 and 433, for a current price above 0
PriceDistancePct(pos, current_price) ==
    IF IsNa(current_price) THEN NaN
    ELSE LET gap == IF pos.position_type = "futures_long"
                    THEN FSub(current_price[1], LiquidationPrice(pos))
                    ELSE FSub(LiquidationPrice(pos), current_price[1])
         IN  Cell(FMul(FDiv(gap, current_price[1]), Frac(100, 1)))

\* lines 435-437
RiskLevel(price_distance_pct) ==
    IF Gt(price_distance_pct, Frac(50, 1)) THEN "safe"
    ELSE IF Gt(price_distance_pct, Frac(25, 1)) THEN "moderate"
    ELSE "high"

\* lines 439-446
LiquidationEntry(pos, prices) ==
    LET current_price == CurrentPrice(pos, prices)
        price_distance_pct == PriceDistancePct(pos, current_price)
    IN  [asset |-> pos.asset,
         position_type |-> pos.position_type,
         liquidation_price |-> LiquidationPrice(pos),
         current_price |-> current_price,
         price_distance_pct |-> IF IsNa(price_distance_pct) THEN NaN
                                ELSE Cell(FAbs(price_distance_pct[1])),
         risk_level |-> RiskLevel(price_distance_pct)]

\* lines 413-446: the entries of the assessed positions, in the order of the positions
RECURSIVE LiquidationRisks(_, _, _, _)
LiquidationRisks(ps, prices, i, risks) ==
    IF i > Len(ps) THEN risks
    ELSE LiquidationRisks(ps, prices, i + 1,
             IF Assessed(ps[i]) THEN Append(risks, LiquidationEntry(ps[i], prices)) ELSE risks)

\* lines 448-453
OverallLiquidationRisk(risks) ==
    IF \E i \in DOMAIN risks : risks[i].risk_level = "high" THEN "high"
    ELSE IF \E i \in DOMAIN risks : risks[i].risk_level = "moderate" THEN "moderate"
    ELSE "low"

\* a variant that signals at exactly 5%
RebalancingSignalInclusive(delta, value) ==
    LET dn == DeltaNormalized(delta, value)
    IN  [needed |-> Geq(dn, Frac(5, 100)),
         urgency |-> IF Gt(dn, Frac(15, 100)) THEN "high"
                     ELSE IF Gt(dn, Frac(5, 100)) THEN "medium" ELSE "none",
         current_delta |-> delta,
         delta_normalized |-> dn]

\* lines 456-459 and 474-479
RebalancingSignal(delta, value) ==
    LET dn == DeltaNormalized(delta, value)
    IN  [needed |-> Gt(dn, Frac(5, 100)),
         urgency |-> IF Gt(dn, Frac(15, 100)) THEN "high"
                     ELSE IF Gt(dn, Frac(5, 100)) THEN "medium" ELSE "none",
         current_delta |-> delta,
         delta_normalized |-> dn]

\* lines 430 and 433 divide by the current price: ZeroDivisionError at price 0
DashboardRaises(ps, prices) ==
    \E i \in DOMAIN ps : Assessed(ps[i]) /\ CurrentPrice(ps[i], prices) = Cell(Zero)

\* lines 467-480
AlertDashboard(metrics, value, ps, prices, delta) ==
    LET components == HealthComponents(metrics, value, ps, delta)
        risks == LiquidationRisks(ps, prices, 1, <<>>)
    IN  [kind |-> "Dashboard",
         health_score |-> HealthScore(components),
         health_components |-> components,
         liquidation_risk |-> [overall_risk |-> OverallLiquidationRisk(risks),
                               positions |-> risks],
         rebalancing_signal |-> RebalancingSignal(delta, value)]

(***************************************************************************)
(* SpecDashboard: calculate_alert_dashboard on small portfolios, with      *)
(* metrics, values, deltas and prices at, just below and just above every  *)
(* threshold of the function.                                              *)
(***************************************************************************)
DashPositions ==
    {Pos("BTC", "spot", 1, 100, 5),
     Pos("BTC", "futures_long", 1, 100, 3),
     Pos("BTC", "futures_short", 1, 100, 3),
     Pos("ETH", "futures_long", 1, 100, 10),
     Pos("ETH", "futures_short", 1, 100, 1),
     Without(Pos("ETH", "futures_long", 1, 100, 1), {"leverage"}),
     Pos("ETH", "futures_short", 1, 100, 21)}

DashLists == UNION {[1 .. n -> DashPositions] : n \in 0 .. MaxHeld}

DashPrices ==
    {[k \in AllAssets \X POSITION_TYPES |-> Cell(p)] : p \in {0, 30, 50, 104, 140, 200}}
    \cup {[k \in AllAssets \X POSITION_TYPES |-> NaN], EmptyDict}

Metrics(vol, sharpe) ==
    [k \in {"portfolio_volatility_annual", "sharpe_ratio"} |->
        IF k = "sharpe_ratio" THEN sharpe ELSE vol]

DashMetrics ==
    {Metrics(Cell(Frac(30, 100)), Cell(Frac(18, 10))),
     Metrics(Cell(Frac(45, 100)), Cell(Frac(75, 100))),
     Metrics(Cell(Frac(31, 100)), Cell(Frac(1, 1))),
     Metrics(Cell(Frac(1, 1)), Cell(Frac(25, 100))),
     Metrics(Cell(Frac(101, 100)), Cell(Frac(0 - 25, 100))),
     Metrics(Cell(Frac(0 - 1, 10)), Cell(Frac(0 - 1, 1))),
     Metrics(NaN, NaN),
     Metrics(Cell(Frac(87, 100)), Cell(Frac(0 - 5, 10))),
     EmptyDict}

DashValues ==
    {<<Cell(v), Cell(d)>> : v \in {100}, d \in {0, 4, 5, 6, 15, 16, 27, 50, 51, 0 - 20}}
    \cup {<<Cell(0), Cell(3)>>, <<Cell(0 - 100), Cell(3)>>, <<NaN, Cell(3)>>,
          <<Cell(100), NaN>>, <<Cell(100000), Cell(200)>>}

InitDashboard ==
    \E ps \in DashLists, prices \in DashPrices, metrics \in DashMetrics, vd \in DashValues :
        /\ positions = ps
        /\ lookback_days = 0
        /\ db = [a \in AllAssets |-> NotFetched]
        /\ pc = "calculate_alert_dashboard"
        /\ trace = <<>>
        /\ result = None
        /\ assets = <<>>
        /\ task = NoTasks
        /\ spot_data = EmptyDict
        /\ futures_data = EmptyDict
        /\ actual_days = 0
        /\ daily_spot = EmptyDict
        /\ daily_futures = EmptyDict
        /\ aligned = None
        /\ warnings = <<>>
        /\ data_warning = None
        /\ current_prices = prices
        /\ current_value = vd[1]
        /\ portfolio_values = <<>>
        /\ shock_range = SENSITIVITY_RANGE
        /\ sensitivity_table = <<>>
        /\ delta_exposure = vd[2]
        /\ risk_metrics = metrics
        /\ dashboard = None
        /\ data = None
        /\ sanitized = None
        /\ NoCharts
        /\ AgentIdle

\* graph.py lines 266-480
CalculateAlertDashboard ==
    /\ pc = "calculate_alert_dashboard"
    /\ IF DashboardRaises(positions, current_prices)
       THEN /\ result' = Failure("ZeroDivisionError", Valid)
            /\ UNCHANGED dashboard
       ELSE /\ dashboard' = AlertDashboard(risk_metrics, current_value, positions,
                                           current_prices, delta_exposure)
            /\ UNCHANGED result
    /\ pc' = "Done"
    /\ UNCHANGED <<positions, lookback_days, trace, assets, fetchVars, dataVars, data_warning,
                   valueVars, shock_range, sensitivity_table, delta_exposure, risk_metrics,
                   utilsVars, chartVars, agentVars>>

NextDashboard == CalculateAlertDashboard

SpecDashboard == InitDashboard /\ [][NextDashboard]_vars

(***************************************************************************)
(* graph.py: calculate_delta_gauge.  delta_exposure and portfolio_value    *)
(* are cells holding integers, prices are cells holding integers, and the  *)
(* normalized delta is an exact fraction.                                  *)
(***************************************************************************)
\* line 110: the keys of the prices p with p > 0 (a NaN price is not > 0)
PositivePrices(prices) == {k \in DOMAIN prices : ~IsNa(prices[k]) /\ prices[k][1] > 0}

RECURSIVE SumPrices(_, _)
SumPrices(prices, keys) ==
    IF keys = {} THEN 0
    ELSE LET k == CHOOSE x \in keys : TRUE
         IN  prices[k][1] + SumPrices(prices, keys \ {k})

\* line 111: np.mean(prices) if prices else 1.0
AveragePrice(prices) ==
    LET keys == PositivePrices(prices)
    IN  IF keys = {} THEN Frac(1, 1) ELSE Frac(SumPrices(prices, keys), Cardinality(keys))

\* line 122: max(-1.0, min(1.0, x))
Clamp(x) ==
    IF FLt(Frac(1, 1), x) THEN Frac(1, 1)
    ELSE IF FLt(x, Frac(0 - 1, 1)) THEN Frac(0 - 1, 1) ELSE x

\* a variant that leaves out the clamp of line 122
GaugeNormalizedUnclamped(delta, value, prices) ==
    IF ~IsNa(value) /\ value[1] > 0
    THEN IF IsNa(delta) THEN Cell(Frac(1, 1))
         ELSE Cell(FDiv(FMul(Frac(delta[1], 1), AveragePrice(prices)), Frac(value[1], 1)))
    ELSE Cell(Zero)

\* lines 115-122; avg_price > 0 always holds; for a NaN delta the quotient is
\* NaN, min(1.0, nan) is 1.0 and max(-1.0, 1.0) is 1.0
GaugeNormalized(delta, value, prices) ==
    IF ~IsNa(value) /\ value[1] > 0
    THEN IF IsNa(delta) THEN Cell(Frac(1, 1))
         ELSE Cell(Clamp(FDiv(FMul(Frac(delta[1], 1), AveragePrice(prices)),
                              Frac(value[1], 1))))
    ELSE Cell(Zero)

\* lines 125-131
GaugeStatus(dn) ==
    IF FLeq(FAbs(dn[1]), Frac(5, 100)) THEN "neutral"
    ELSE IF FLeq(FAbs(dn[1]), Frac(2, 10))
         THEN (IF FLt(Zero, dn[1]) THEN "slight_long" ELSE "slight_short")
         ELSE (IF FLt(Zero, dn[1]) THEN "high_long" ELSE "high_short")

\* line 134
DirectionalExposurePct(delta, value) ==
    IF ~IsNa(value) /\ value[1] > 0
    THEN IF IsNa(delta) THEN NaN ELSE Cell(Frac(100 * Abs(delta[1]), value[1]))
    ELSE Cell(Zero)

\* lines 81-147
DeltaGauge(delta, value, ps, prices) ==
    LET dn == GaugeNormalized(delta, value, prices)
    IN  [kind |-> "Gauge",
         delta_raw |-> delta,
         delta_normalized |-> dn,
         status |-> GaugeStatus(dn),
         portfolio_value |-> value,
         directional_exposure_pct |-> DirectionalExposurePct(delta, value)]

(***************************************************************************)
(* SpecGauge: calculate_delta_gauge and calculate_alert_dashboard on the   *)
(* same delta exposure, portfolio value, positions and prices.             *)
(***************************************************************************)
GaugePrices ==
    {PriceDict({<<(<<"BTC", "spot">>), Cell(100)>>}),
     PriceDict({<<(<<"BTC", "spot">>), Cell(100)>>, <<(<<"ETH", "spot">>), Cell(300)>>}),
     PriceDict({<<(<<"BTC", "spot">>), Cell(100)>>, <<(<<"BTC", "futures_short">>), Cell(100)>>}),
     PriceDict({<<(<<"BTC", "spot">>), Cell(100)>>, <<(<<"ETH", "spot">>), Cell(0)>>}),
     PriceDict({<<(<<"BTC", "spot">>), Cell(2)>>}),
     PriceDict({<<(<<"BTC", "spot">>), Cell(0)>>}),
     [k \in {<<"BTC", "spot">>} |-> NaN],
     [k \in {<<"BTC", "spot">>, <<"ETH", "spot">>} |-> IF k[1] = "BTC" THEN NaN ELSE Cell(50)],
     EmptyDict}

GaugeDeltas == {Cell(d) : d \in {0 - 30, 0 - 10, 0 - 3, 0 - 1, 0, 1, 2, 3, 5, 6, 10, 30}} \cup {NaN}

GaugeValues == {Cell(v) : v \in {0 - 100, 0, 100, 200, 1000, 2000}} \cup {NaN}

GaugeLists == {ps \in DashLists : Len(ps) <= 1}

InitGauge ==
    \E ps \in GaugeLists, prices \in GaugePrices, d \in GaugeDeltas, v \in GaugeValues :
        /\ positions = ps
        /\ lookback_days = 0
        /\ db = [a \in AllAssets |-> NotFetched]
        /\ pc = "calculate_delta_gauge"
        /\ trace = <<>>
        /\ result = None
        /\ assets = <<>>
        /\ task = NoTasks
        /\ spot_data = EmptyDict
        /\ futures_data = EmptyDict
        /\ actual_days = 0
        /\ daily_spot = EmptyDict
        /\ daily_futures = EmptyDict
        /\ aligned = None
        /\ warnings = <<>>
        /\ data_warning = None
        /\ current_prices = prices
        /\ current_value = v
        /\ portfolio_values = <<>>
        /\ shock_range = SENSITIVITY_RANGE
        /\ sensitivity_table = <<>>
        /\ delta_exposure = d
        /\ risk_metrics = Metrics(Cell(Frac(30, 100)), Cell(Frac(18, 10)))
        /\ dashboard = None
        /\ data = None
        /\ sanitized = None
        /\ NoCharts
        /\ AgentIdle

\* graph.py lines 81-147; the dashboard of the same response is computed next
CalculateDeltaGauge ==
    /\ pc = "calculate_delta_gauge"
    /\ delta_gauge' = DeltaGauge(delta_exposure, current_value, positions, current_prices)
    /\ pc' = "calculate_alert_dashboard"
    /\ UNCHANGED <<positions, lookback_days, trace, result, assets, fetchVars, dataVars,
                   data_warning, valueVars, shock_range, sensitivity_table, delta_exposure,
                   graphVars, utilsVars, sensitivity_graph, asset_returns,
                   correlation_matrix, portfolio_variance, risk_contribution, agentVars>>

NextGauge == CalculateDeltaGauge \/ CalculateAlertDashboard

SpecGauge == InitGauge /\ [][NextGauge]_vars

(***************************************************************************)
(* graph.py: calculate_sensitivity_graph.  Indices of the result are       *)
(* Python's: the first row has index 0.                                    *)
(***************************************************************************)
\* lines 48-53
DataPoint(row) ==
    [x |-> row.price_change_pct, y |-> row.portfolio_value,
     return_pct |-> row.return_pct, pnl |-> row.pnl]

\* a variant in which every row with a shock of at most 0 is taken as current
CurrentRowAtMostZero(table) ==
    LET at == {i \in DOMAIN table : table[i].price_change_pct <= 0}
    IN  IF at = {} THEN 0 ELSE Max(at)

\* lines 44-59: the last row with price_change_pct == 0.0, as a position of
\* the sequence; 0 when there is none
CurrentRow(table) ==
    LET at == {i \in DOMAIN table : table[i].price_change_pct = 0}
    IN  IF at = {} THEN 0 ELSE Max(at)

\* min(values) of Python: the first value that no later value is below; a
\* comparison with NaN is false
RECURSIVE PyMin(_)
PyMin(values) ==
    IF Len(values) = 1 THEN values[1]
    ELSE LET m == PyMin(SubSeq(values, 1, Len(values) - 1))
             x == values[Len(values)]
         IN  IF ~IsNa(x) /\ ~IsNa(m) /\ x[1] < m[1] THEN x ELSE m

\* max(values) of Python
RECURSIVE PyMax(_)
PyMax(values) ==
    IF Len(values) = 1 THEN values[1]
    ELSE LET m == PyMax(SubSeq(values, 1, Len(values) - 1))
             x == values[Len(values)]
         IN  IF ~IsNa(x) /\ ~IsNa(m) /\ x[1] > m[1] THEN x ELSE m

\* lines 19-78
SensitivityGraph(table) ==
    IF table = <<>>
    THEN [kind |-> "SensitivityGraph",
          data_points |-> <<>>,
          current_position |-> 0,
          value_range |-> [min |-> Cell(0), max |-> Cell(0), current |-> Cell(0)]]
    ELSE LET points == [i \in DOMAIN table |-> DataPoint(table[i])]
             values == [i \in DOMAIN points |-> points[i].y]
             at == CurrentRow(table)
         IN  [kind |-> "SensitivityGraph",
              data_points |-> points,
              current_position |-> IF at = 0 THEN 0 ELSE at - 1,
              value_range |-> [min |-> PyMin(values),
                               max |-> PyMax(values),
                               current |-> IF at = 0 THEN Cell(0)
                                           ELSE table[at].portfolio_value]]

(***************************************************************************)
(* graph.py: calculate_risk_contribution.  A position is a dict with the   *)
(* keys asset and value; returns are integers, correlations and the        *)
(* portfolio variance exact fractions, and the inputs are chosen so that   *)
(* every square root is exact.                                             *)
(***************************************************************************)
\* n / d for d # 0
Quot(n, d) == IF d < 0 THEN Frac(0 - n, 0 - d) ELSE Frac(n, d)

\* the root of a square number
ISqrt(n) == CHOOSE r \in 0 .. n : r * r = n

\* np.sqrt of a fraction whose numerator and denominator are squares
FSqrt(f) == Frac(ISqrt(f.num), ISqrt(f.den))

RECURSIVE FSum(_)
FSum(fs) == IF fs = <<>> THEN Zero ELSE FAdd(fs[1], FSum(Tail(fs)))

\* some enumeration of a finite set
RECURSIVE SeqOf(_)
SeqOf(S) == IF S = {} THEN <<>> ELSE LET x == CHOOSE y \in S : TRUE IN <<x>> \o SeqOf(S \ {x})

\* pos.get("value", 0)
ValueOf(pos) == IF "value" \in DOMAIN pos THEN pos.value ELSE 0

\* line 182
RECURSIVE TotalValue(_)
TotalValue(ps) == IF ps = <<>> THEN 0 ELSE ValueOf(ps[1]) + TotalValue(Tail(ps))

\* line 191: a dict comprehension keyed by asset; a later position of the same
\* asset replaces the weight of an earlier one
Weights(ps, total) ==
    [a \in {ps[i].asset : i \in DOMAIN ps} |->
        Quot(ValueOf(ps[Max({i \in DOMAIN ps : ps[i].asset = a})]), total)]

\* np.std(returns, ddof=1) of at least two returns
Std(returns) ==
    LET n == Len(returns)
        mean == Frac(FSum([i \in 1 .. n |-> Frac(returns[i], 1)]).num, n)
        squares == [i \in 1 .. n |->
                       FMul(FSub(Frac(returns[i], 1), mean), FSub(Frac(returns[i], 1), mean))]
    IN  FSqrt(FDiv(FSum(squares), Frac(n - 1, 1)))

\* lines 192-195
Volatilities(returns) ==
    [a \in DOMAIN returns |-> IF Len(returns[a]) > 0 THEN Std(returns[a]) ELSE Zero]

\* d.get(k, 0) of a dict of fractions
GetOrZero(d, k) == IF k \in DOMAIN d THEN d[k] ELSE Zero

\* line 215: correlation_matrix.get(asset, {}).get(other_asset, 0)
Rho(corr, a, b) == IF a \in DOMAIN corr THEN GetOrZero(corr[a], b) ELSE Zero

\* lines 212-216
CovWithPortfolio(a, weights, vols, corr) ==
    LET others == SeqOf(DOMAIN weights)
    IN  FSum([j \in DOMAIN others |->
                 FMul(FMul(weights[others[j]], GetOrZero(vols, a)),
                      FMul(GetOrZero(vols, others[j]), Rho(corr, a, others[j])))])

\* lines 204-235: the entry of one position; portfolio_std > 0 here
Contribution(pos, weights, vols, corr, std) ==
    LET w == weights[pos.asset]
        mcr == FDiv(CovWithPortfolio(pos.asset, weights, vols, corr), std)
        risk == FMul(w, mcr)
    IN  [asset |-> pos.asset,
         risk_pct |-> FMul(risk, Frac(100, 1)),
         value_pct |-> FMul(w, Frac(100, 1)),
         risk_value |-> risk,
         position_value |-> ValueOf(pos)]

\* line 240: list.sort by abs(risk_pct), reverse=True; the sort is stable
RECURSIVE SortByRisk(_)
SortByRisk(entries) ==
    IF entries = <<>> THEN <<>>
    ELSE LET rest == SortByRisk(SubSeq(entries, 1, Len(entries) - 1))
             e == entries[Len(entries)]
             before == SelectSeq(rest, LAMBDA x : FLeq(FAbs(e.risk_pct), FAbs(x.risk_pct)))
             after == SelectSeq(rest, LAMBDA x : ~FLeq(FAbs(e.risk_pct), FAbs(x.risk_pct)))
         IN  before \o <<e>> \o after

\* lines 175-179 and 184-188
EmptyContribution ==
    [kind |-> "RiskContribution", contributions |-> <<>>, total_risk |-> Zero,
     diversification_benefit |-> Zero]

\* lines 150-263, for a portfolio variance that is not negative
RiskContribution(ps, returns, corr, variance) ==
    IF ps = <<>> \/ variance = Zero THEN EmptyContribution
    ELSE IF TotalValue(ps) = 0 THEN EmptyContribution
    ELSE LET weights == Weights(ps, TotalValue(ps))
             vols == Volatilities(returns)
             std == FSqrt(variance)
             entries == [i \in DOMAIN ps |-> Contribution(ps[i], weights, vols, corr, std)]
             held == SeqOf(DOMAIN weights)
             individual == FSum([j \in DOMAIN held |->
                                    FMul(weights[held[j]], GetOrZero(vols, held[j]))])
         IN  [kind |-> "RiskContribution",
              contributions |-> SortByRisk(entries),
              total_risk |-> FSum([i \in DOMAIN entries |-> FAbs(entries[i].risk_value)]),
              diversification_benefit |->
                  IF FLt(Zero, individual)
                  THEN FMul(FDiv(FSub(individual, std), individual), Frac(100, 1))
                  ELSE Zero]

(***************************************************************************)
(* SpecCharts: calculate_sensitivity_graph on the tables that              *)
(* calculate_sensitivity_table builds, and calculate_risk_contribution on  *)
(* small portfolios, also with two positions in one asset.                 *)
(***************************************************************************)
ChartShocks == ShockRanges \cup {<<0, 0 - 10, 20>>}

ChartTables ==
    {SensitivityTable(c[1], c[2], c[3]) :
        c \in {d \in {l \in ValuedLists : Len(l) = 1} \X ValuedPrices \X ChartShocks :
                  ~PortfolioRaises(d[1], d[2])}}

Valued(a, v) == [asset |-> a, value |-> v]

ChartPositions ==
    {Valued("BTC", 60), Valued("ETH", 40), Valued("BTC", 40), Valued("ETH", 0 - 60),
     [asset |-> "ETH"]}

ChartLists == UNION {[1 .. n -> ChartPositions] : n \in 0 .. MaxHeld}

ChartReturns ==
    {[a \in AllAssets |-> IF a = "BTC" THEN <<0 - 1, 0, 1>> ELSE <<0 - 2, 0, 2>>],
     [a \in AllAssets |-> IF a = "BTC" THEN <<0 - 2, 0, 2>> ELSE <<>>],
     [a \in {"BTC"} |-> <<1, 2, 3>>],
     EmptyDict}

ChartCorrelations ==
    {[a \in AllAssets |-> [b \in AllAssets |-> IF a = b THEN Frac(1, 1) ELSE Frac(1, 2)]],
     [a \in AllAssets |-> [b \in AllAssets |-> IF a = b THEN Frac(1, 1) ELSE Frac(0 - 1, 1)]],
     [a \in {"BTC"} |-> [b \in {"BTC"} |-> Frac(1, 1)]],
     EmptyDict}

ChartVariances == {Zero, Frac(1, 1), Frac(4, 1), Frac(1, 4)}

InitCharts ==
    \E table \in ChartTables, ps \in ChartLists, returns \in ChartReturns,
       corr \in ChartCorrelations, variance \in ChartVariances,
       f \in {"calculate_sensitivity_graph", "calculate_risk_contribution"} :
        /\ f = "calculate_sensitivity_graph" =>
               ps = <<>> /\ returns = EmptyDict /\ corr = EmptyDict /\ variance = Zero
        /\ f = "calculate_risk_contribution" => table = <<>>
        /\ positions = ps
        /\ lookback_days = 0
        /\ db = [a \in AllAssets |-> NotFetched]
        /\ pc = f
        /\ trace = <<>>
        /\ result = None
        /\ assets = <<>>
        /\ task = NoTasks
        /\ spot_data = EmptyDict
        /\ futures_data = EmptyDict
        /\ actual_days = 0
        /\ daily_spot = EmptyDict
        /\ daily_futures = EmptyDict
        /\ aligned = None
        /\ warnings = <<>>
        /\ data_warning = None
        /\ current_prices = EmptyDict
        /\ current_value = NaN
        /\ portfolio_values = <<>>
        /\ shock_range = SENSITIVITY_RANGE
        /\ sensitivity_table = table
        /\ delta_exposure = NaN
        /\ risk_metrics = EmptyDict
        /\ dashboard = None
        /\ data = None
        /\ sanitized = None
        /\ sensitivity_graph = None
        /\ delta_gauge = None
        /\ asset_returns = returns
        /\ correlation_matrix = corr
        /\ portfolio_variance = variance
        /\ risk_contribution = None
        /\ AgentIdle

chartIdle == <<positions, lookback_days, trace, result, assets, fetchVars, dataVars,
               data_warning, valueVars, shock_range, sensitivity_table, delta_exposure,
               graphVars, utilsVars, asset_returns, correlation_matrix, portfolio_variance,
               agentVars>>

\* graph.py lines 19-78
CalculateSensitivityGraph ==
    /\ pc = "calculate_sensitivity_graph"
    /\ sensitivity_graph' = SensitivityGraph(sensitivity_table)
    /\ pc' = "Done"
    /\ UNCHANGED <<chartIdle, delta_gauge, risk_contribution>>

\* graph.py lines 150-263
CalculateRiskContribution ==
    /\ pc = "calculate_risk_contribution"
    /\ risk_contribution' = RiskContribution(positions, asset_returns, correlation_matrix,
                                             portfolio_variance)
    /\ pc' = "Done"
    /\ UNCHANGED <<chartIdle, delta_gauge, sensitivity_graph>>

NextCharts == CalculateSensitivityGraph \/ CalculateRiskContribution

SpecCharts == InitCharts /\ [][NextCharts]_vars

(***************************************************************************)
(* agent/tools/base.py: the validation of the portfolio tools and the      *)
(* tools set_portfolio, get_current_portfolio and calculate_risk_profile.  *)
(* A JSON text is modelled by the value json.loads gives for it, or by     *)
(* JsonInvalid when it does not parse; quantities, prices and leverages    *)
(* are numbers; a string argument is a sequence of characters.            *)
(***************************************************************************)
VALID_SPOT_FUTURES_ASSETS == {"BTC", "ETH", "SOL", "BNB", "XRP", "ADA", "LINK"}
VALID_LENDING_ASSETS == {"WETH", "WBTC", "USDC", "USDT", "DAI"}
VALID_POSITION_TYPES ==
    {"spot", "futures_long", "futures_short", "lending_supply", "lending_borrow"}
MIN_POSITIONS == 1
MIN_LOOKBACK_DAYS == 7
MAX_LOOKBACK_DAYS == 180

JsonInvalid == [t |-> "JSONDecodeError", v |-> <<>>]

\* asset.upper(), for the symbols of the inputs
Upper(a) == IF a = "btc" THEN "BTC" ELSE a

\* LENDING_SYMBOL_MAPPING.get(asset_upper, asset_upper)
LendingSymbol(a) == IF a = "BTC" THEN "WBTC" ELSE IF a = "ETH" THEN "WETH" ELSE a

\* lines 42-70
AssetAccepted(a, data_type) ==
    IF data_type \in {"spot", "futures"} THEN Upper(a) \in VALID_SPOT_FUTURES_ASSETS
    ELSE IF data_type = "lending" THEN LendingSymbol(Upper(a)) \in VALID_LENDING_ASSETS
    ELSE TRUE

\* lines 73-97: the texts of the inputs that match ISO8601_UTC_PATTERN and parse
DateAccepted(text) == text = "2025-01-01T00:00:00Z"

\* _validate_position, lines 130-225: the field of the error message, or "ok"
\* for None; MAX_LEVERAGE of line 31 is the 125 of the core
ToolCheckPosition(pos) ==
    IF "asset" \notin DOMAIN pos THEN "asset"
    ELSE IF "quantity" \notin DOMAIN pos THEN "quantity"
    ELSE IF "position_type" \notin DOMAIN pos THEN "position_type"
    ELSE IF pos.position_type \notin VALID_POSITION_TYPES THEN "position_type"
    ELSE IF pos.quantity <= 0 THEN "quantity"
    ELSE IF pos.position_type \in POSITION_TYPES /\ "entry_price" \notin DOMAIN pos
         THEN "entry_price"
    ELSE IF pos.position_type \in POSITION_TYPES /\ pos.entry_price <= 0 THEN "entry_price"
    ELSE IF pos.position_type \in {"futures_long", "futures_short"}
            /\ (LeverageOf(pos) <= 0 \/ LeverageOf(pos) > MAX_LEVERAGE)
         THEN "leverage"
    ELSE IF pos.position_type \notin POSITION_TYPES /\ "entry_timestamp" \notin DOMAIN pos
         THEN "entry_timestamp"
    ELSE IF pos.position_type \notin POSITION_TYPES /\ ~DateAccepted(pos.entry_timestamp)
         THEN "entry_timestamp"
    ELSE IF pos.position_type = "lending_borrow" /\ "borrow_type" \notin DOMAIN pos
         THEN "borrow_type"
    ELSE IF pos.position_type = "lending_borrow" /\ pos.borrow_type \notin {"variable", "stable"}
         THEN "borrow_type"
    ELSE IF ~AssetAccepted(pos.asset, IF pos.position_type \in POSITION_TYPES
                                      THEN "spot" ELSE "lending")
         THEN "asset"
    ELSE "ok"

\* lines 409-417 and 427-462 without the lookback check, and lines 536-581:
\* the error the tool returns for the parsed value, or "ok"; MAX_POSITIONS of
\* line 34 is the 20 of the core
ToolValidate(parsed) ==
    IF parsed.t = "JSONDecodeError" THEN "Invalid JSON syntax"
    ELSE IF parsed.t # "list" THEN "must be a JSON array"
    ELSE IF Len(parsed.v) < MIN_POSITIONS THEN "At least 1 position is required"
    ELSE IF Len(parsed.v) > MAX_POSITIONS THEN "Too many positions"
    ELSE IF \E i \in DOMAIN parsed.v : ToolCheckPosition(parsed.v[i]) # "ok"
         THEN ToolCheckPosition(
                  parsed.v[Min({i \in DOMAIN parsed.v : ToolCheckPosition(parsed.v[i]) # "ok"})])
    ELSE "ok"

\* str.strip() of a text of spaces and letters
RECURSIVE Strip(_)
Strip(text) ==
    IF text = <<>> THEN <<>>
    ELSE IF Head(text) = " " THEN Strip(Tail(text))
    ELSE IF text[Len(text)] = " " THEN Strip(SubSeq(text, 1, Len(text) - 1))
    ELSE text

\* PortfolioPosition(**p) of src.models of the agent, when it validates
PortfolioPosition(p) == [model |-> "PortfolioPosition", fields |-> p]
\* p.model_dump()
ModelDump(m) == m.fields

ToolError(why) == [success |-> FALSE, error |-> why]

\* a variant of set_portfolio that stores the portfolio before it checks the explanation
SetPortfolioOutcomeEager(parsed, explanation, models_ok) ==
    IF ToolValidate(parsed) # "ok"
    THEN [returned |-> ToolError(ToolValidate(parsed)),
          current_portfolio |-> current_portfolio, reasonings |-> reasonings]
    ELSE IF ~models_ok
    THEN [returned |-> ToolError("Pydantic validation failed"),
          current_portfolio |-> current_portfolio, reasonings |-> reasonings]
    ELSE IF explanation = <<>> \/ Strip(explanation) = <<>>
    THEN [returned |-> ToolError("explanation is required"),
          current_portfolio |-> [i \in DOMAIN parsed.v |-> PortfolioPosition(parsed.v[i])],
          reasonings |-> reasonings]
    ELSE [returned |-> [success |-> TRUE, positions_count |-> Len(parsed.v),
                        explanation |-> explanation],
          current_portfolio |-> [i \in DOMAIN parsed.v |-> PortfolioPosition(parsed.v[i])],
          reasonings |-> Append(reasonings, <<"Portfolio Update: ", explanation>>)]

\* set_portfolio, lines 510-606: what it returns and the context it leaves;
\* models_ok tells whether every PortfolioPosition(**p) validates
SetPortfolioOutcome(parsed, explanation, models_ok) ==
    IF ToolValidate(parsed) # "ok"
    THEN [returned |-> ToolError(ToolValidate(parsed)),
          current_portfolio |-> current_portfolio, reasonings |-> reasonings]
    ELSE IF ~models_ok
    THEN [returned |-> ToolError("Pydantic validation failed"),
          current_portfolio |-> current_portfolio, reasonings |-> reasonings]
    ELSE IF explanation = <<>> \/ Strip(explanation) = <<>>
    THEN [returned |-> ToolError("explanation is required"),
          current_portfolio |-> current_portfolio, reasonings |-> reasonings]
    ELSE [returned |-> [success |-> TRUE, positions_count |-> Len(parsed.v),
                        explanation |-> explanation],
          current_portfolio |-> [i \in DOMAIN parsed.v |-> PortfolioPosition(parsed.v[i])],
          reasonings |-> Append(reasonings, <<"Portfolio Update: ", explanation>>)]

\* get_current_portfolio, lines 608-625; <<>> stands for a portfolio that is
\* None or empty: line 613 takes both as not set
CurrentPortfolioReport ==
    IF current_portfolio # <<>>
    THEN [has_portfolio |-> TRUE,
          positions |-> [i \in DOMAIN current_portfolio |-> ModelDump(current_portfolio[i])],
          count |-> Len(current_portfolio)]
    ELSE [has_portfolio |-> FALSE, message |-> "No portfolio has been set yet"]

\* calculate_risk_profile of the tools, lines 382-505: the error the tool
\* returns before it calls the backend, or "ok"
RiskProfileToolCheck(parsed, days) ==
    IF ToolValidate(parsed) \in {"Invalid JSON syntax", "must be a JSON array",
                                 "At least 1 position is required", "Too many positions"}
    THEN ToolValidate(parsed)
    ELSE IF days < MIN_LOOKBACK_DAYS \/ days > MAX_LOOKBACK_DAYS THEN "lookback_days"
    ELSE IF ToolValidate(parsed) # "ok" THEN ToolValidate(parsed)
    ELSE IF days > 30 /\ \E i \in DOMAIN parsed.v :
                            parsed.v[i].position_type \in {"futures_long", "futures_short"}
         THEN "exceeds data availability"
    ELSE "ok"

(***************************************************************************)
(* SpecTools: the agent calls set_portfolio, get_current_portfolio and     *)
(* calculate_risk_profile in any order, with arguments that pass and that  *)
(* fail each check of the tools.                                           *)
(***************************************************************************)
MaxReasonings == 2

Lending(a, type) ==
    [asset |-> a, quantity |-> 2, position_type |-> type,
     entry_timestamp |-> "2025-01-01T00:00:00Z"]

ToolPositions ==
    {BtcSpot, EthSpot, BtcShort,
     [BtcSpot EXCEPT !.leverage = MAX_LEVERAGE + 1],
     [BtcSpot EXCEPT !.leverage = 0],
     [BtcLong EXCEPT !.leverage = MAX_LEVERAGE + 1],
     [BtcSpot EXCEPT !.asset = "btc"],
     [BtcSpot EXCEPT !.asset = "DOGE"],
     [BtcSpot EXCEPT !.quantity = 0],
     [BtcSpot EXCEPT !.position_type = "long"],
     Without(BtcShort, {"entry_price"}),
     Lending("ETH", "lending_supply"),
     Lending("USDC", "lending_borrow"),
     [Lending("USDC", "lending_supply") EXCEPT !.entry_timestamp = "2025-01-01"]}

ToolInputs ==
    {JsonInvalid, PyDict(EmptyDict), PyList(<<>>),
     PyList([i \in 1 .. MAX_POSITIONS + 1 |-> BtcSpot])}
    \cup {PyList(<<p>>) : p \in ToolPositions}
    \cup {PyList(<<BtcSpot, p>>) : p \in {BtcShort, [BtcSpot EXCEPT !.quantity = 0]}}

Explanations == {<<>>, <<" ", " ">>, <<" ", "o", "k">>}

ToolLookbacks == {MIN_LOOKBACK_DAYS - 1, 30, 31}

InitTools ==
    /\ positions = <<>>
    /\ lookback_days = 0
    /\ db = [a \in AllAssets |-> NotFetched]
    /\ pc = "agent"
    /\ trace = <<>>
    /\ result = None
    /\ assets = <<>>
    /\ task = NoTasks
    /\ spot_data = EmptyDict
    /\ futures_data = EmptyDict
    /\ actual_days = 0
    /\ daily_spot = EmptyDict
    /\ daily_futures = EmptyDict
    /\ aligned = None
    /\ warnings = <<>>
    /\ data_warning = None
    /\ current_prices = EmptyDict
    /\ current_value = NaN
    /\ portfolio_values = <<>>
    /\ shock_range = SENSITIVITY_RANGE
    /\ sensitivity_table = <<>>
    /\ delta_exposure = NaN
    /\ risk_metrics = EmptyDict
    /\ dashboard = None
    /\ data = None
    /\ sanitized = None
    /\ NoCharts
    /\ AgentIdle

toolIdle == <<positions, lookback_days, pc, trace, assets, fetchVars, dataVars, data_warning,
              valueVars, shock_range, sensitivity_table, delta_exposure, graphVars, utilsVars,
              chartVars, chat_store, queue, clock, request>>

\* tools/base.py lines 510-606
SetPortfolio ==
    /\ pc = "agent"
    /\ Len(reasonings) < MaxReasonings
    /\ \E parsed \in ToolInputs, explanation \in Explanations, models_ok \in BOOLEAN :
          LET outcome == SetPortfolioOutcome(parsed, explanation, models_ok)
          IN  /\ tool_call' = [tool |-> "set_portfolio", positions_json |-> parsed,
                               explanation |-> explanation]
              /\ result' = outcome.returned
              /\ current_portfolio' = outcome.current_portfolio
              /\ reasonings' = outcome.reasonings
    /\ UNCHANGED toolIdle

\* tools/base.py lines 608-625
GetCurrentPortfolio ==
    /\ pc = "agent"
    /\ tool_call' = [tool |-> "get_current_portfolio"]
    /\ result' = CurrentPortfolioReport
    /\ UNCHANGED <<toolIdle, current_portfolio, reasonings>>

\* tools/base.py lines 382-505: the tool validates, then posts the positions to the
\* backend, whose _validate_positions rejects them or lets the calculation run;
\* any failure of the backend comes back as an error dict
CalculateRiskProfileTool ==
    /\ pc = "agent"
    /\ \E parsed \in ToolInputs, days \in ToolLookbacks, computed \in BOOLEAN :
          /\ tool_call' = [tool |-> "calculate_risk_profile", positions_json |-> parsed,
                           lookback_days |-> days]
          /\ result' =
                IF RiskProfileToolCheck(parsed, days) # "ok"
                THEN [error |-> RiskProfileToolCheck(parsed, days), posted |-> FALSE]
                ELSE IF ~ValidatePositions(parsed.v).ok
                THEN [error |-> "Backend API error", posted |-> TRUE,
                      detail |-> ValidatePositions(parsed.v)]
                ELSE IF ~computed
                THEN [error |-> "Backend API error", posted |-> TRUE, detail |-> Valid]
                ELSE [kind |-> "Profile", posted |-> TRUE]
    /\ UNCHANGED <<toolIdle, current_portfolio, reasonings>>

NextTools == SetPortfolio \/ GetCurrentPortfolio \/ CalculateRiskProfileTool

SpecTools == InitTools /\ [][NextTools]_vars

(***************************************************************************)
(* The backend client (agent/src/backend_client.py).  Both methods are     *)
(* wrapped in @retry(stop=stop_after_attempt(3), wait=wait_exponential(    *)
(* multiplier=1, min=1, max=10), reraise=True): the body runs again after  *)
(* any exception until the stop condition holds, and then the exception of *)
(* the last attempt is raised to the caller.                               *)
(***************************************************************************)
STOP_AFTER_ATTEMPT == 3

CLIENT_METHODS == {"get_aggregated_stats", "calculate_risk_profile"}

Raised(error) == [raised |-> error]
Responded(value) == [returned |-> value]

\* what the HTTP exchange of one attempt gives: no response at all, or a
\* status code with a body
HttpResponse(status, body) == [kind |-> "Response", status |-> status, body |-> body]
ConnectError == [kind |-> "ConnectError"]
TimeoutException == [kind |-> "TimeoutException"]

\* one run of a method body, lines 57-109 and 133-152: the request, then
\* raise_for_status(), then response.json(); get_aggregated_stats also calls
\* result.get("data", {}), which raises when the JSON is not an object
AttemptOutcome(method, exchange) ==
    IF exchange.kind # "Response" THEN Raised(exchange.kind)
    ELSE IF exchange.status >= 400 THEN Raised("HTTPStatusError")
    ELSE IF exchange.body.t = "JSONDecodeError" THEN Raised("JSONDecodeError")
    ELSE IF method = "get_aggregated_stats" /\ exchange.body.t # "dict"
         THEN Raised("AttributeError")
    ELSE Responded(exchange.body)

\* a variant of the decorator that raises after the first failed attempt
AfterAttemptNoRetry(attempt_number, outcome) ==
    IF "returned" \in DOMAIN outcome THEN "return"
    ELSE "reraise"

\* the decorator, lines 31-35 and 111-115: after an attempt the call returns
\* its value, or stops (attempt_number >= 3) and raises its exception
\* (reraise=True), or sleeps and runs the body again
AfterAttempt(attempt_number, outcome) ==
    IF "returned" \in DOMAIN outcome THEN "return"
    ELSE IF attempt_number >= STOP_AFTER_ATTEMPT THEN "reraise"
    ELSE "sleep"

(***************************************************************************)
(* SpecRetry: one call of a method of the client against a backend that    *)
(* answers each attempt in any way; trace records the outcome of every     *)
(* attempt made.                                                           *)
(***************************************************************************)
Exchanges ==
    {ConnectError, TimeoutException,
     HttpResponse(500, JsonInvalid), HttpResponse(422, PyList(<<1>>)),
     HttpResponse(200, JsonInvalid), HttpResponse(200, PyList(<<>>)),
     HttpResponse(200, PyList(<<1>>)), HttpResponse(200, PyList(<<2>>))}
    \cup {HttpResponse(200, [t |-> "dict", v |-> <<n>>]) : n \in 1 .. 2}

InitRetry ==
    /\ positions = <<>>
    /\ lookback_days = 0
    /\ db = [a \in AllAssets |-> NotFetched]
    /\ pc = "client"
    /\ trace = <<>>
    /\ result = None
    /\ assets = <<>>
    /\ task = NoTasks
    /\ spot_data = EmptyDict
    /\ futures_data = EmptyDict
    /\ actual_days = 0
    /\ daily_spot = EmptyDict
    /\ daily_futures = EmptyDict
    /\ aligned = None
    /\ warnings = <<>>
    /\ data_warning = None
    /\ current_prices = EmptyDict
    /\ current_value = NaN
    /\ portfolio_values = <<>>
    /\ shock_range = SENSITIVITY_RANGE
    /\ sensitivity_table = <<>>
    /\ delta_exposure = NaN
    /\ risk_metrics = EmptyDict
    /\ dashboard = None
    /\ data = None
    /\ sanitized = None
    /\ NoCharts
    /\ AgentIdle

retryIdle == <<positions, lookback_days, assets, fetchVars, dataVars, data_warning,
               valueVars, shock_range, sensitivity_table, delta_exposure, graphVars, utilsVars,
               chartVars, current_portfolio, reasonings, chat_store, queue, clock, request>>

\* the caller awaits a method of the client
CallClient ==
    /\ pc = "client"
    /\ \E method \in CLIENT_METHODS : tool_call' = [tool |-> method]
    /\ pc' = "attempt"
    /\ UNCHANGED <<retryIdle, trace, result>>

\* one attempt: the body of the method runs, and the decorator decides
ClientAttempt ==
    /\ pc = "attempt"
    /\ \E exchange \in Exchanges :
          LET outcome == AttemptOutcome(tool_call.tool, exchange)
              verdict == AfterAttempt(Len(trace) + 1, outcome)
          IN  /\ trace' = Append(trace, outcome)
              /\ result' = IF verdict = "sleep" THEN result ELSE outcome
              /\ pc' = IF verdict = "sleep" THEN "sleep" ELSE "Done"
    /\ UNCHANGED <<retryIdle, tool_call>>

\* the wait of wait_exponential ends and the body runs again
ClientSleep ==
    /\ pc = "sleep"
    /\ pc' = "attempt"
    /\ UNCHANGED <<retryIdle, tool_call, trace, result>>

NextRetry == CallClient \/ ClientAttempt \/ ClientSleep

SpecRetry == InitRetry /\ [][NextRetry]_vars

(***************************************************************************)
(* The chat service (agent/src/api/service.py).  ChatStore and the RQ      *)
(* queue are given to the service by its caller; the store is a map from   *)
(* chat id to chat record and the queue the sequence of the jobs enqueued. *)
(***************************************************************************)
\* ChatStore.get_chat(chat_id): the record, or None
GetChat(store, chat_id) == IF chat_id \in DOMAIN store THEN store[chat_id] ELSE None

\* ChatStore.create_chat(chat_id, request): a record in queued status
StoreCreateChat(store, chat_id) ==
    [c \in DOMAIN store \cup {chat_id} |->
        IF c = chat_id THEN [kind |-> "ChatRecord", status |-> "queued", messages |-> <<>>]
        ELSE store[c]]

\* ChatStore.add_user_message(chat_id, prompt)
StoreAddUserMessage(store, chat_id, prompt) ==
    [store EXCEPT ![chat_id].messages = Append(@, prompt)]

\* Queue.enqueue(process_chat_request, kwargs=..., job_id=...)
Enqueue(q, job_id, chat_id, is_followup, user_prompt) ==
    Append(q, [job_id |-> job_id, chat_id |-> chat_id, is_followup |-> is_followup,
               user_prompt |-> user_prompt])

\* line 45: the job of a new chat carries the chat id
CreateJobId(chat_id) == <<chat_id>>

\* line 170: f"{chat_id}_followup_{int(time.time() * 1000)}", now in milliseconds
FollowupJobId(chat_id, now) == <<chat_id, "_followup_", now>>

\* a variant of get_chat_service that lets a missing chat through
AfterGetChatAnyRecord(record) == "add_user_message"

\* get_chat_service, lines 104-107, as followup_service calls it at line 164:
\* where the call goes after chat_store.get_chat
AfterGetChat(record) ==
    IF record = None THEN "ValueError" ELSE "add_user_message"

(***************************************************************************)
(* SpecService: two request handlers run create_chat_service and           *)
(* followup_service side by side while the clock advances; a call of the   *)
(* store or of the queue may fail.                                         *)
(***************************************************************************)
MaxChats == 1
MaxMessages == 3
MaxClock == 1

Handlers == {1, 2}
ChatIds == {<<"chat", n>> : n \in 1 .. MaxChats}
\* an id no chat was ever given
MissingChat == <<"chat", 0>>
Prompts == {"hello"}

NoRequest == [op |-> "none", chat_id |-> <<>>, prompt |-> "", pc |-> "idle", error |-> ""]

RECURSIVE SumOver(_, _)
SumOver(f, S) ==
    IF S = {} THEN 0
    ELSE LET x == CHOOSE y \in S : TRUE IN f[x] + SumOver(f, S \ {x})

\* the messages stored and the ones the calls in progress are about to store
Messages ==
    SumOver([c \in DOMAIN chat_store |-> Len(chat_store[c].messages)], DOMAIN chat_store)
    + Cardinality({h \in Handlers : request[h].pc = "add_user_message"})

InitService ==
    /\ positions = <<>>
    /\ lookback_days = 0
    /\ db = [a \in AllAssets |-> NotFetched]
    /\ pc = "service"
    /\ trace = <<>>
    /\ result = None
    /\ assets = <<>>
    /\ task = NoTasks
    /\ spot_data = EmptyDict
    /\ futures_data = EmptyDict
    /\ actual_days = 0
    /\ daily_spot = EmptyDict
    /\ daily_futures = EmptyDict
    /\ aligned = None
    /\ warnings = <<>>
    /\ data_warning = None
    /\ current_prices = EmptyDict
    /\ current_value = NaN
    /\ portfolio_values = <<>>
    /\ shock_range = SENSITIVITY_RANGE
    /\ sensitivity_table = <<>>
    /\ delta_exposure = NaN
    /\ risk_metrics = EmptyDict
    /\ dashboard = None
    /\ data = None
    /\ sanitized = None
    /\ NoCharts
    /\ current_portfolio = <<>>
    /\ reasonings = <<>>
    /\ tool_call = [tool |-> "none"]
    /\ chat_store = EmptyDict
    /\ queue = <<>>
    /\ clock = 0
    /\ request = [h \in Handlers |-> NoRequest]

serviceIdle == <<positions, lookback_days, pc, trace, result, assets, fetchVars, dataVars,
                 data_warning, valueVars, shock_range, sensitivity_table, delta_exposure,
                 graphVars, utilsVars, chartVars, current_portfolio, reasonings, tool_call>>

Free(h) == request[h].pc \in {"idle", "returned", "raised"}

\* create_chat_service, lines 28-32: uuid4 gives an id no chat has, and the
\* store creates the record
CreateChat(h) ==
    /\ Free(h)
    /\ Messages < MaxMessages
    /\ \E chat_id \in ChatIds \ DOMAIN chat_store, prompt \in Prompts, stored \in BOOLEAN :
          IF stored
          THEN /\ chat_store' = StoreCreateChat(chat_store, chat_id)
               /\ request' = [request EXCEPT ![h] =
                                 [op |-> "create_chat_service", chat_id |-> chat_id,
                                  prompt |-> prompt, pc |-> "add_user_message", error |-> ""]]
          ELSE /\ chat_store' = chat_store
               /\ request' = [request EXCEPT ![h] =
                                 [op |-> "create_chat_service", chat_id |-> chat_id,
                                  prompt |-> "", pc |-> "raised", error |-> "StoreError"]]
    /\ UNCHANGED <<serviceIdle, queue, clock>>

\* followup_service, line 164: get_chat_service raises ValueError for a chat
\* the store does not have
FollowupGetChat(h) ==
    /\ Free(h)
    /\ Messages < MaxMessages
    /\ \E chat_id \in ChatIds \cup {MissingChat}, prompt \in Prompts :
          LET next == AfterGetChat(GetChat(chat_store, chat_id))
          IN  request' = [request EXCEPT ![h] =
                             [op |-> "followup_service", chat_id |-> chat_id,
                              prompt |-> IF next = "ValueError" THEN "" ELSE prompt,
                              pc |-> IF next = "ValueError" THEN "raised" ELSE next,
                              error |-> IF next = "ValueError" THEN "ValueError" ELSE ""]]
    /\ UNCHANGED <<serviceIdle, chat_store, queue, clock>>

\* lines 35 and 167: chat_store.add_user_message(chat_id, prompt); a chat the
\* store does not have makes the store raise
AddUserMessage(h) ==
    /\ request[h].pc = "add_user_message"
    /\ \E stored \in BOOLEAN :
          IF stored /\ request[h].chat_id \in DOMAIN chat_store
          THEN /\ chat_store' = StoreAddUserMessage(chat_store, request[h].chat_id,
                                                    request[h].prompt)
               /\ request' = [request EXCEPT ![h].pc = "enqueue"]
          ELSE /\ chat_store' = chat_store
               /\ request' = [request EXCEPT ![h].pc = "raised", ![h].error = "StoreError", ![h].prompt = ""]
    /\ UNCHANGED <<serviceIdle, queue, clock>>

\* lines 38-48 and 170-181: the job id, queue.enqueue, and the return
EnqueueJob(h) ==
    /\ request[h].pc = "enqueue"
    /\ \E enqueued \in BOOLEAN :
          IF enqueued
          THEN /\ queue' = Enqueue(queue,
                                   IF request[h].op = "followup_service"
                                   THEN FollowupJobId(request[h].chat_id, clock)
                                   ELSE CreateJobId(request[h].chat_id),
                                   request[h].chat_id,
                                   request[h].op = "followup_service",
                                   request[h].prompt)
               /\ request' = [request EXCEPT ![h].pc = "returned", ![h].prompt = ""]
          ELSE /\ queue' = queue
               /\ request' = [request EXCEPT ![h].pc = "raised", ![h].error = "QueueError", ![h].prompt = ""]
    /\ UNCHANGED <<serviceIdle, chat_store, clock>>

\* a millisecond passes
Tick ==
    /\ clock < MaxClock
    /\ clock' = clock + 1
    /\ UNCHANGED <<serviceIdle, chat_store, queue, request>>

NextService ==
    \/ \E h \in Handlers : CreateChat(h)
    \/ \E h \in Handlers : FollowupGetChat(h)
    \/ \E h \in Handlers : AddUserMessage(h)
    \/ \E h \in Handlers : EnqueueJob(h)
    \/ Tick

SpecService == InitService /\ [][NextService]_vars

(***************************************************************************)
(* Properties.                                                             *)
(***************************************************************************)
\* the stage that statement p belongs to
StageOf(p) == IF p \in {"Fetch", "AwaitSpot", "AwaitFutures"} THEN "Fetch" ELSE p

StageDone(n) == Len(trace) >= n
StageOk(n) == Len(trace) >= n /\ trace[n][2] = "ok"
StageFailed(n) == Len(trace) >= n /\ trace[n][2] = "fail"
Issued(t) == task[t] # "none"

\* C1: the stages of one call run in the order Validate, Fetch, Resample, Align,
\* PriceSnapshot, Valuate, ComputeSeries, ComputeMetrics, Scenario, Assemble, each
\* starting only after the one before it has finished; the call ends in exactly one
\* of Success and Failure; after a failed stage no later stage runs, and a failed
\* validation issues no fetch.
C1_StagesInOrder ==
    /\ Len(trace) <= Len(STAGES)
    /\ \A i \in DOMAIN trace : trace[i][1] = STAGES[i]
    /\ \A i \in DOMAIN trace : i < Len(trace) => trace[i][2] = "ok"
    /\ pc # "Done" =>
          /\ result = None
          /\ \A i \in DOMAIN trace : trace[i][2] = "ok"
          /\ Len(trace) < Len(STAGES)
          /\ StageOf(pc) = STAGES[Len(trace) + 1]
    /\ pc = "Done" =>
          /\ trace # <<>>
          /\ result.kind \in {"Success", "Failure"}
          /\ result.kind = "Success" <=> (Len(trace) = Len(STAGES) /\ StageOk(Len(STAGES)))
          /\ result.kind = "Failure" <=> StageFailed(Len(trace))
    /\ (\E t \in Tasks : Issued(t)) => StageOk(1)
    /\ ~StageOk(1) => spot_data = EmptyDict /\ futures_data = EmptyDict

\* C1 witness: a call that passed validation, fetched, and ended in Failure at the
\* price snapshot, with no later stage run.
C1_Witness ==
    /\ pc = "Done"
    /\ result.kind = "Failure"
    /\ trace[Len(trace)] = <<"PriceSnapshot", "fail">>
    /\ current_value = NaN

\* what the database gives for asset a
SpotYields(a) == db[a].spot.ok /\ db[a].spot.rows # {}
MarkYields(a) == db[a].mark.ok /\ db[a].mark.rows # {}
FundingYields(a) == db[a].funding.ok /\ db[a].funding.rows # {}
Yields(a) == SpotYields(a) \/ MarkYields(a) \/ FundingYields(a)
NothingFrom(a) == ~SpotYields(a) /\ ~MarkYields(a) /\ ~FundingYields(a)

\* the futures frame of a is returned by the fetch
FuturesReturned(a) == MarkYields(a) /\ db[a].funding.ok
ColumnMissing(pos) ==
    IF pos.position_type = "spot" THEN ~SpotYields(pos.asset) ELSE ~FuturesReturned(pos.asset)

\* the call failed for want of data
DataFailure == result.kind = "Failure" /\ result.reason \in {"NoDataAvailable", "MissingPrice"}

\* C2 as claimed: when the fetches of one requested asset give nothing while another
\* requested asset yields data, the call does not fail for want of data.
C2_FailedAssetNeverFatal ==
    (pc = "Done" /\ StageOk(1)
        /\ \E a, b \in Range(assets) : a # b /\ NothingFrom(a) /\ Yields(b))
    => ~DataFailure

\* C2 as amended: a failed, timed-out or empty fetch never fails the fetch stage;
\* the call fails with NoDataAvailable whenever no asset yields any data, and only
\* when no asset yields spot data; once the alignment has succeeded it fails with
\* MissingPrice exactly when the fetch left out the spot series of a spot
\* position's asset or the futures series of a futures position's asset; every
\* call that returns a RiskProfile had no such missing series.
C2_FailureOnlyForMissingColumn ==
    /\ StageDone(2) => StageOk(2)
    /\ StageDone(4) =>
          /\ (\A a \in Range(assets) : NothingFrom(a)) => StageFailed(4)
          /\ StageFailed(4) => \A a \in Range(assets) : ~SpotYields(a)
    /\ StageDone(5) => (StageFailed(5) <=> \E i \in DOMAIN positions : ColumnMissing(positions[i]))
    /\ (pc = "Done" /\ StageOk(1)) =>
          /\ (result.kind = "Failure" /\ result.reason = "NoDataAvailable") <=> StageFailed(4)
          /\ (result.kind = "Failure" /\ result.reason = "MissingPrice") <=> StageFailed(5)
          /\ result.kind = "Success" => \A i \in DOMAIN positions : ~ColumnMissing(positions[i])

\* C2 witness: two assets, every fetch of one failed or came back empty, the other
\* yields spot data, and the call ended in Failure(MissingPrice).
C2_Witness ==
    /\ pc = "Done"
    /\ result.kind = "Failure"
    /\ result.reason = "MissingPrice"
    /\ \E a, b \in Range(assets) : a # b /\ NothingFrom(a) /\ SpotYields(b)

\* C3: once fetch_portfolio_data has returned, every asset whose own spot fetch
\* gave data is in the spot result with exactly its rows, every asset whose own
\* mark and funding fetches succeeded with mark data is in the futures result with
\* its mark rows, whatever the fetches of the other assets did, and no asset is
\* there otherwise; the fetch stage never fails.
C3_PerAssetIsolation ==
    /\ StageDone(2) => StageOk(2)
    /\ StageOk(2) =>
          \A a \in Range(assets) :
              /\ a \in DOMAIN spot_data <=> SpotYields(a)
              /\ a \in DOMAIN spot_data =>
                    {<<r.timestamp, r.close>> : r \in spot_data[a]}
                        = {<<r.timestamp, r.v>> : r \in db[a].spot.rows}
              /\ a \in DOMAIN futures_data <=> FuturesReturned(a)
              /\ a \in DOMAIN futures_data =>
                    {<<r.timestamp, r.mark_price>> : r \in futures_data[a]}
                        = {<<r.timestamp, Cell(r.v)>> : r \in db[a].mark.rows}

\* C3 witness: fetch_portfolio_data returned the spot series of one asset and the
\* futures series of the same asset although the spot and mark fetches of another
\* asset raised.
C3_Witness ==
    /\ StageOk(2)
    /\ \E a, b \in Range(assets) :
          /\ a # b
          /\ ~db[a].spot.ok /\ ~db[a].mark.ok
          /\ b \in DOMAIN spot_data /\ b \in DOMAIN futures_data

AllIssued(kinds) == \A a \in Range(assets), k \in kinds : Issued(<<k, a>>)
AllDone(kinds) == \A a \in Range(assets), k \in kinds : task[<<k, a>>] = "done"
NoneIssued(kinds) == \A a \in Range(assets), k \in kinds : ~Issued(<<k, a>>)
InFlight(kinds) == \E a \in Range(assets), k \in kinds : task[<<k, a>>] = "running"
Unprocessed == spot_data = EmptyDict /\ futures_data = EmptyDict

\* C4 as claimed: every spot, mark and funding fetch is started before any of them
\* is waited for, and no result is processed until every fetch is done.
C4_AllFetchesIssuedTogether ==
    /\ pc \in {"AwaitSpot", "AwaitFutures"} => AllIssued(KINDS)
    /\ pc \in {"Validate", "Fetch", "AwaitSpot", "AwaitFutures"} => Unprocessed
    /\ StageOk(2) => AllDone(KINDS)

\* C4 as amended: the spot fetches of all assets are started together and joined
\* first; only then are the mark and funding fetches of all assets started
\* together, so a spot fetch is never in flight with a futures fetch; no result is
\* processed until every fetch is done.
C4_TwoPhaseFetch ==
    /\ pc = "AwaitSpot" => AllIssued({"spot"}) /\ NoneIssued({"mark", "funding"})
    /\ pc = "AwaitFutures" => AllDone({"spot"}) /\ AllIssued({"mark", "funding"})
    /\ ~(InFlight({"spot"}) /\ InFlight({"mark", "funding"}))
    /\ pc \in {"Validate", "Fetch", "AwaitSpot", "AwaitFutures"} => Unprocessed
    /\ StageOk(2) => AllDone(KINDS)

\* C4 witness: a mark fetch and a funding fetch of different assets in flight at the
\* same time, after every spot fetch is done and while another fetch is already done.
C4_Witness ==
    /\ pc = "AwaitFutures"
    /\ \E a, b \in Range(assets) :
          /\ a # b
          /\ task[<<"mark", a>>] = "running" /\ task[<<"funding", b>>] = "running"
          /\ task[<<"funding", a>>] = "done"

\* what C5 calls an offending position
Offending(pos) ==
    \/ \E f \in {"asset", "quantity", "position_type", "entry_price"} : f \notin DOMAIN pos
    \/ "position_type" \in DOMAIN pos
          /\ pos.position_type \notin {"spot", "futures_long", "futures_short"}
    \/ "quantity" \in DOMAIN pos /\ pos.quantity <= 0
    \/ "entry_price" \in DOMAIN pos /\ pos.entry_price <= 0
    \/ "leverage" \in DOMAIN pos /\ (pos.leverage <= 0 \/ pos.leverage > 125)

OffendingIndexes == {i \in DOMAIN positions : Offending(positions[i])}
WrongLength == Len(positions) = 0 \/ Len(positions) > 20

\* C5: validation fails with InvalidPortfolio exactly when the list is empty or has
\* more than 20 entries or holds an offending position (a required key missing, a
\* position_type outside the three, quantity <= 0, entry_price <= 0, leverage <= 0
\* or > 125, an absent leverage counting as 1); for a list of 1..20 positions the
\* failure names the first offending index (from 0); every other list is accepted.
C5_ValidationIff ==
    pc # "Validate" =>
        /\ (result.kind = "Failure" /\ result.reason = "InvalidPortfolio")
              <=> (WrongLength \/ OffendingIndexes # {})
        /\ (~WrongLength /\ OffendingIndexes # {}) =>
              result.detail.index = Min(OffendingIndexes) - 1
        /\ WrongLength => result.detail.index = NoIndex
        /\ ~(WrongLength \/ OffendingIndexes # {}) =>
              pc = "Fetch" /\ result = None /\ trace = <<<<"Validate", "ok">>>>

\* C5 witness: a list with two offending positions after a good one was rejected
\* naming the first of the two.
C5_Witness ==
    /\ pc = "Done"
    /\ result.kind = "Failure"
    /\ Cardinality(OffendingIndexes) >= 2
    /\ 1 \notin OffendingIndexes
    /\ result.detail.index = Min(OffendingIndexes) - 1

\* the days from the first to the last row of the aligned table
AlignedSpan == aligned.hi - aligned.lo

\* C6 as claimed: the response carries a data_availability_warning exactly when the
\* aligned history spans fewer than 30 days or align_time_series gave a warning.
C6_WarningIffShortAlignedHistory ==
    (pc = "Done" /\ result.kind = "Success") =>
        (result.data_availability_warning # None <=> (AlignedSpan < 30 \/ warnings # <<>>))

\* C6 as amended: the response carries a data_availability_warning exactly when
\* actual_days, the smaller of lookback_days and the shortest whole-day span between
\* the first and the last raw spot row of an asset that has spot data, is under 30,
\* or align_time_series gave a warning; the warning holds the day count in the first
\* case and every alignment warning; and the warning does not end the call, which
\* goes on to the price snapshot whenever the alignment succeeded.
C6_WarningIffShortSpotHistory ==
    /\ StageOk(2) =>
          actual_days = Min({lookback_days}
                            \cup {SpanDays(db[a].spot.rows) :
                                     a \in {x \in Range(assets) : SpotYields(x)}})
    /\ StageOk(4) =>
          /\ data_warning # None <=> (actual_days < 30 \/ warnings # <<>>)
          /\ data_warning # None =>
                /\ data_warning.days = (IF actual_days < 30 THEN Cell(actual_days) ELSE NaN)
                /\ data_warning.align = warnings
    /\ (pc = "Done" /\ result.kind = "Success") =>
          result.data_availability_warning = data_warning
    /\ (pc = "Done" /\ StageOk(4)) => StageDone(5)

\* C6 witness: a RiskProfile with a warning although the aligned table spans 30 days
\* and alignment gave no warning.
C6_Witness ==
    /\ pc = "Done"
    /\ result.kind = "Success"
    /\ result.data_availability_warning # None
    /\ AlignedSpan >= 30
    /\ warnings = <<>>

\* resample_to_daily left no row in any series
NoDailyRow ==
    /\ \A a \in DOMAIN daily_spot : daily_spot[a] = {}
    /\ \A a \in DOMAIN daily_futures : daily_futures[a] = {}

\* C9: align_time_series raises NoDataAvailable exactly when no daily spot or
\* futures series has a row; otherwise it returns a table over the days from the
\* first to the last row, and a list of warnings.
C9_NoDataIffNoTimestamp ==
    StageDone(4) =>
        /\ StageFailed(4) <=> NoDailyRow
        /\ StageFailed(4) => result = Failure("NoDataAvailable", Valid) /\ aligned = None
        /\ StageOk(4) =>
              /\ aligned.kind = "DataFrame"
              /\ aligned.lo <= aligned.hi
              /\ \A k \in DOMAIN aligned.cols : DOMAIN aligned.cols[k] = aligned.lo .. aligned.hi
              /\ \A i \in DOMAIN warnings : warnings[i].count > 0

\* C9 witness: NoDataAvailable for an input in which a futures series is present
\* but has lost all its rows.
C9_Witness ==
    /\ pc = "Done"
    /\ result.kind = "Failure"
    /\ result.reason = "NoDataAvailable"
    /\ \E a \in DOMAIN daily_futures : daily_futures[a] = {}

\* the days on which a raw series has a row, and the last row of a day
ObservedDays(frame) == {DayOf(r.timestamp) : r \in frame}
LastRowOf(frame, d) ==
    CHOOSE r \in frame :
        /\ DayOf(r.timestamp) = d
        /\ \A q \in frame : DayOf(q.timestamp) = d => ~TsLess(r.timestamp, q.timestamp)
FundingOf(frame, d) == {r \in frame : DayOf(r.timestamp) = d /\ ~IsNa(r.funding_rate)}
OneRowPerDay(daily) == \A r, q \in daily : r.timestamp = q.timestamp => r = q

\* C7 as claimed: the table of align_time_series has one row per day from the
\* earliest to the latest day of the daily series and no missing value in any
\* spot, futures-mark or funding column.
C7_NoMissingValue ==
    StageOk(4) =>
        /\ aligned.lo = Min(AllTimestamps(daily_spot, daily_futures))
        /\ aligned.hi = Max(AllTimestamps(daily_spot, daily_futures))
        /\ \A k \in DOMAIN aligned.cols :
              /\ DOMAIN aligned.cols[k] = aligned.lo .. aligned.hi
              /\ \A d \in aligned.lo .. aligned.hi : ~IsNa(aligned.cols[k][d])

\* the days of the table before the first row of a daily series (the leading gap)
LeadingGap(daily) ==
    IF daily = {} THEN {}
    ELSE {d \in aligned.lo .. aligned.hi : \A r \in daily : d < r.timestamp}

\* the number of values that back-fill / zero-default wrote into the column
FilledCount(a, field) ==
    IF field = "spot" THEN Cardinality(LeadingGap(daily_spot[a]))
    ELSE IF field = "futures" THEN Cardinality(LeadingGap(daily_futures[a]))
    ELSE IF daily_futures[a] = {} THEN aligned.hi - aligned.lo + 1
    ELSE Cardinality(LeadingGap(daily_futures[a]))

WarningsFor(a, field) ==
    {i \in DOMAIN warnings : warnings[i].asset = a /\ warnings[i].field = field}

ColumnsFilled ==
    {<<a, "spot">> : a \in DOMAIN daily_spot}
    \cup {<<a, f>> : a \in DOMAIN daily_futures, f \in {"futures", "funding"}}

\* C8 as claimed: a column into which back-fill (spot, mark) or zero-default
\* (funding) wrote n > 0 values has exactly one warning, for its asset and field and
\* with count n; a column with no such fill, and an asset or field without a
\* column, has none.
C8_OneWarningPerFill ==
    StageOk(4) =>
        /\ \A c \in ColumnsFilled :
              IF FilledCount(c[1], c[2]) > 0
              THEN /\ Cardinality(WarningsFor(c[1], c[2])) = 1
                   /\ \A i \in WarningsFor(c[1], c[2]) :
                         warnings[i].count = FilledCount(c[1], c[2])
              ELSE WarningsFor(c[1], c[2]) = {}
        /\ \A i \in DOMAIN warnings : <<warnings[i].asset, warnings[i].field>> \in ColumnsFilled

\* C10 as claimed: resample_to_daily gives, for each asset, exactly one row for
\* each day on which the raw series has a row and no other row; the spot row has
\* the day's last close, the futures row the day's last mark price and the mean of
\* the day's funding rates.
C10_OneRowPerObservedDay ==
    StageOk(3) =>
        /\ \A a \in DOMAIN spot_data :
              /\ a \in DOMAIN daily_spot
              /\ OneRowPerDay(daily_spot[a])
              /\ {r.timestamp : r \in daily_spot[a]} = ObservedDays(spot_data[a])
              /\ \A r \in daily_spot[a] : r.close = LastRowOf(spot_data[a], r.timestamp).close
        /\ \A a \in DOMAIN futures_data :
              /\ a \in DOMAIN daily_futures
              /\ OneRowPerDay(daily_futures[a])
              /\ {r.timestamp : r \in daily_futures[a]} = ObservedDays(futures_data[a])
              /\ \A r \in daily_futures[a] :
                    /\ Cell(r.mark_price) = LastRowOf(futures_data[a], r.timestamp).mark_price
                    /\ FundingOf(futures_data[a], r.timestamp) # {} =>
                          r.funding_rate =
                              [num |-> SumField(FundingOf(futures_data[a], r.timestamp),
                                                "funding_rate"),
                               den |-> Cardinality(FundingOf(futures_data[a], r.timestamp))]
        /\ DOMAIN daily_spot = DOMAIN spot_data
        /\ DOMAIN daily_futures = DOMAIN futures_data

\* the column C11 requires for a position
RequiredColumn(pos) ==
    <<pos.asset, IF pos.position_type = "spot" THEN "spot" ELSE "futures_mark">>

\* C11: the price snapshot fails, with MissingPrice, exactly when the aligned table
\* lacks the column some position requires (spot for a spot position, futures mark
\* for a futures position); otherwise current_prices has exactly the keys (asset,
\* position_type) of the positions, each with the value of the required column in
\* the last row of the table.
C11_CurrentPriceFromLastRow ==
    StageDone(5) =>
        /\ StageFailed(5) <=>
              \E i \in DOMAIN positions : RequiredColumn(positions[i]) \notin DOMAIN aligned.cols
        /\ StageFailed(5) => result = Failure("MissingPrice", Valid) /\ current_prices = EmptyDict
        /\ StageOk(5) =>
              /\ DOMAIN current_prices =
                    {<<positions[i].asset, positions[i].position_type>> : i \in DOMAIN positions}
              /\ \A i \in DOMAIN positions :
                    current_prices[<<positions[i].asset, positions[i].position_type>>]
                        = aligned.cols[RequiredColumn(positions[i])][aligned.hi]

\* C11 witness: a spot and a futures position priced from a table of several rows
\* whose last row differs from its first row in the futures-mark column.
C11_Witness ==
    /\ StageOk(5)
    /\ \E i, j \in DOMAIN positions :
          /\ positions[i].position_type = "spot"
          /\ positions[j].position_type = "futures_short"
          /\ aligned.cols[RequiredColumn(positions[j])][aligned.lo]
                # current_prices[<<positions[j].asset, "futures_short">>]


(***************************************************************************)
(* Valuation: the claims about valuation.py, under SpecValuation.          *)
(***************************************************************************)
\* the price a position is valued at: under (asset, position_type), else under asset
ResolvedPrice(pos) ==
    IF <<pos.asset, pos.position_type>> \in DOMAIN current_prices
    THEN current_prices[<<pos.asset, pos.position_type>>]
    ELSE current_prices[<<pos.asset>>]

Unresolved ==
    {i \in DOMAIN positions :
        /\ <<positions[i].asset, positions[i].position_type>> \notin DOMAIN current_prices
        /\ <<positions[i].asset>> \notin DOMAIN current_prices}

KnownTypes == \A i \in DOMAIN positions : positions[i].position_type \in POSITION_TYPES

\* quantity * entry_price / leverage, the leverage defaulting to 1
MarginOf(pos) ==
    LET lev == IF "leverage" \in DOMAIN pos THEN pos.leverage ELSE 1
    IN  CHOOSE m \in 0 .. pos.quantity * pos.entry_price : m * lev = pos.quantity * pos.entry_price

\* the value the three formulas give a position at price p
ValueAt(pos, p) ==
    IF pos.position_type = "spot" THEN pos.quantity * p
    ELSE IF pos.position_type = "futures_long"
         THEN MarginOf(pos) + (p - pos.entry_price) * pos.quantity
    ELSE MarginOf(pos) + (pos.entry_price - p) * pos.quantity

RECURSIVE SumOfValues(_)
SumOfValues(I) ==
    IF I = {} THEN 0
    ELSE LET i == CHOOSE j \in I : TRUE
         IN  ValueAt(positions[i], ResolvedPrice(positions[i])[1]) + SumOfValues(I \ {i})

\* C12: once calculate_portfolio_value has been called on positions of the three
\* types, it has failed with MissingPrice when some position has a price neither
\* under (asset, position_type) nor under the bare asset; otherwise it returned the
\* sum of quantity * price for spot, quantity * entry / leverage + (price - entry) *
\* quantity for a long and quantity * entry / leverage + (entry - price) * quantity
\* for a short, each at the composite-key price if there is one and at the
\* bare-asset price if not (a NaN price making the sum NaN).
C12_PositionAndPortfolioValue ==
    (pc # "calculate_portfolio_value" /\ KnownTypes) =>
        /\ Unresolved # {} => result = Failure("MissingPrice", Valid) /\ current_value = NaN
        /\ Unresolved = {} =>
              /\ result = None
              /\ current_value =
                    IF \E i \in DOMAIN positions : ResolvedPrice(positions[i]) = NaN THEN NaN
                    ELSE Cell(SumOfValues(DOMAIN positions))

\* C12 witness: a portfolio valued with one position priced under its composite key
\* and a leveraged futures position priced under the bare asset.
C12_Witness ==
    /\ pc = "Done"
    /\ result = None
    /\ current_value # NaN
    /\ \E i, j \in DOMAIN positions :
          /\ positions[i].position_type = "spot"
          /\ <<positions[i].asset, "spot">> \in DOMAIN current_prices
          /\ positions[j].position_type = "futures_short"
          /\ positions[j].leverage > 1
          /\ <<positions[j].asset, "futures_short">> \notin DOMAIN current_prices
          /\ <<positions[j].asset>> \in DOMAIN current_prices


\* the PnL term of a futures position at price p
PnlAt(pos, p) ==
    IF pos.position_type = "futures_long" THEN (p - pos.entry_price) * pos.quantity
    ELSE (pos.entry_price - p) * pos.quantity

\* C13: when the three functions are called again after every futures leverage was
\* doubled, the value of a single futures position less its PnL term (its margin) is
\* half of what it was, the pnl of every sensitivity row (the difference between the
\* value at the shocked prices and at the base prices) is what it was, and the delta
\* exposure is what it was.
C13_LeverageScalesMarginOnly ==
    [][/\ delta_exposure # NaN => delta_exposure' = delta_exposure
       /\ \A i \in DOMAIN sensitivity_table \cap DOMAIN sensitivity_table' :
             sensitivity_table'[i].pnl = sensitivity_table[i].pnl
       /\ (/\ current_value # NaN
           /\ current_value' # current_value
           /\ Len(positions) = 1
           /\ IsFutures(positions[1])) =>
             LET pnl == PnlAt(positions[1], ResolvedPrice(positions[1])[1])
             IN  2 * (current_value'[1] - pnl) = current_value[1] - pnl]_vars

\* C13 witness: a single futures position valued again after its leverage was doubled
\* up to MaxDoubled, with a sensitivity table of at least three rows.
C13_Witness ==
    /\ pc = "Done"
    /\ result = None
    /\ Len(positions) = 1
    /\ IsFutures(positions[1])
    /\ positions[1].leverage >= 8
    /\ current_value # NaN
    /\ Len(sensitivity_table) >= 3
    /\ \E i \in DOMAIN sensitivity_table : sensitivity_table[i].pnl \notin {NaN, Cell(0)}


RECURSIVE SumOfQuantities(_)
SumOfQuantities(I) ==
    IF I = {} THEN 0
    ELSE LET i == CHOOSE j \in I : TRUE IN positions[i].quantity + SumOfQuantities(I \ {i})

\* C14: once calculate_delta_exposure has been called, the delta exposure is the sum
\* of the quantities of the spot and futures_long positions less the sum of the
\* quantities of the futures_short positions; a spot position and a futures_short
\* position of the same asset and quantity have delta exposure 0 at every leverage.
C14_DeltaIsSignedQuantitySum ==
    delta_exposure # NaN =>
        /\ delta_exposure =
              Cell(SumOfQuantities({i \in DOMAIN positions :
                                       positions[i].position_type \in {"spot", "futures_long"}})
                   - SumOfQuantities({i \in DOMAIN positions :
                                         positions[i].position_type = "futures_short"}))
        /\ (/\ Len(positions) = 2
            /\ {positions[1].position_type, positions[2].position_type} = {"spot", "futures_short"}
            /\ positions[1].asset = positions[2].asset
            /\ positions[1].quantity = positions[2].quantity) => delta_exposure = Cell(0)

\* C14 witness: a spot long and a leveraged futures short of the same asset and
\* quantity, with delta exposure computed as 0.
C14_Witness ==
    /\ pc = "Done"
    /\ delta_exposure = Cell(0)
    /\ Len(positions) = 2
    /\ positions[1].position_type = "spot"
    /\ positions[2].position_type = "futures_short"
    /\ positions[1].asset = positions[2].asset
    /\ positions[1].quantity = positions[2].quantity
    /\ positions[2].leverage > 1


\* base_prices with every price multiplied by (1 + s / 100)
ShockedPrices(s) ==
    [k \in DOMAIN current_prices |->
        IF current_prices[k] = NaN THEN NaN
        ELSE Cell(CHOOSE p \in 0 .. 2 * current_prices[k][1] :
                      100 * p = current_prices[k][1] * (100 + s))]

\* C15: once calculate_sensitivity_table has returned, the table has one row per
\* shock of shock_range, in shock_range order; the portfolio_value of a row is the
\* portfolio value at the prices multiplied by (1 + shock), its pnl is that value
\* less the base value and its return_pct is pnl over the base value; a row of
\* shock 0 has the base value and pnl 0; and when the base value is 0, return_pct
\* is 0 in every row.
C15_SensitivityTableRows ==
    (pc = "Done" /\ result = None) =>
        /\ Len(sensitivity_table) = Len(shock_range)
        /\ \A i \in DOMAIN shock_range :
              LET row == sensitivity_table[i]
              IN  /\ row.price_change_pct = shock_range[i]
                  /\ row.portfolio_value = PortfolioValue(positions, ShockedPrices(shock_range[i]))
                  /\ current_value # NaN =>
                        /\ row.pnl = Cell(row.portfolio_value[1] - current_value[1])
                        /\ current_value[1] # 0 =>
                              /\ row.return_pct[1].den = current_value[1]
                              /\ row.return_pct[1].num = 100 * row.pnl[1]
                  /\ (shock_range[i] = 0 /\ current_value # NaN) =>
                        row.portfolio_value = current_value /\ row.pnl = Cell(0)
                  /\ current_value = Cell(0) => row.return_pct = Cell(Zero)

\* C15 witness: a table of three rows in an order that is not ascending, with a row
\* of shock 0 and a row of non-zero pnl, and a table over a base value of 0 whose
\* pnl is not 0.
C15_Witness ==
    /\ pc = "Done"
    /\ result = None
    /\ shock_range = <<10, 0 - 50, 0>>
    /\ Len(sensitivity_table) = 3
    /\ current_value = Cell(0)
    /\ sensitivity_table[1].pnl \notin {NaN, Cell(0)}
    /\ sensitivity_table[3].portfolio_value = current_value


(***************************************************************************)
(* Determinism of calculate_risk_profile, under Spec.                      *)
(***************************************************************************)
\* what the call returns from (positions, lookback_days, db) when list(set(...)) has
\* the given order and no estimator raises
ProfileWith(order) ==
    LET spot == ProcessSpot(order, db)
        futures == ProcessFutures(order, db)
        r == AlignTimeSeries(order, ResampleAllSpot(spot), ResampleAllFutures(futures))
        prices == ExtractCurrentPrices(r.aligned, positions).prices
    IN  [kind |-> "Success",
         current_portfolio_value |-> PortfolioValue(positions, prices),
         sensitivity_analysis |-> SensitivityTable(positions, prices, shock_range),
         delta_exposure |-> Cell(DeltaExposure(positions)),
         data_availability_warning |->
             WithAlignment(DaysWarning(MinDays(lookback_days, spot)), r.warnings)]

\* C16: a RiskProfile that a call returned is the one the call returns under every
\* other iteration order of the asset set.
C16_SameProfileForEveryAssetOrder ==
    (pc = "Done" /\ result.kind = "Success") =>
        \A order \in Orders(Range(assets)) : ProfileWith(order) = result


(***************************************************************************)
(* Sanitization, under SpecSanitize.                                       *)
(***************************************************************************)
NonFinite == {PyFloat("nan"), PyFloat("inf"), PyFloat("-inf")}

\* what a value that is neither a dict nor a list has to become
Replaced(value) == IF value \in NonFinite THEN PyNone ELSE value

\* list `after` has the length of list `before` and, in the same order, its cells replaced
CellsReplaced(before, after) ==
    /\ after.t = "list"
    /\ Len(after.v) = Len(before.v)
    /\ \A i \in DOMAIN before.v : after.v[i] = Replaced(before.v[i])

Returned == dashboard.kind = "Dashboard"

\* C18: in every dashboard that calculate_alert_dashboard returns, the components
\* are delta_neutral, volatility, sharpe_ratio and leverage, the score of each lies
\* between 0 and 25 points, and health_score is the sum of the four scores and lies
\* between 0 and 100 points.
C18_HealthScoreBounds ==
    Returned =>
        /\ DOMAIN dashboard.health_components = COMPONENTS
        /\ \A c \in COMPONENTS :
              /\ dashboard.health_components[c].score >= 0
              /\ dashboard.health_components[c].score <= 250
        /\ \A a, b, c, d \in COMPONENTS :
              Cardinality({a, b, c, d}) = 4 =>
                  dashboard.health_score =
                      dashboard.health_components[a].score + dashboard.health_components[b].score
                          + dashboard.health_components[c].score
                          + dashboard.health_components[d].score
        /\ dashboard.health_score >= 0
        /\ dashboard.health_score <= 1000

\* C18 witness: a dashboard in which every component score is strictly between 0
\* and 25 points and none of them is the market-neutral 12.5.
C18_Witness ==
    /\ Returned
    /\ \A c \in COMPONENTS : dashboard.health_components[c].score \notin {0, 125, 250}
    /\ dashboard.health_components["sharpe_ratio"].status = "good"


\* the futures positions with a leverage above 1, and the k-th of them
LeveragedFutures ==
    {i \in DOMAIN positions :
        /\ positions[i].position_type \in {"futures_long", "futures_short"}
        /\ "leverage" \in DOMAIN positions[i]
        /\ positions[i].leverage > 1}

NthLeveraged(k) ==
    CHOOSE i \in LeveragedFutures : Cardinality({j \in LeveragedFutures : j < i}) = k - 1

\* the price an entry is assessed at: under (asset, position_type), else the entry price
AssessedAt(pos) ==
    IF <<pos.asset, pos.position_type>> \in DOMAIN current_prices
    THEN current_prices[<<pos.asset, pos.position_type>>]
    ELSE Cell(pos.entry_price)

\* the level of a position assessed at price p with liquidation price lp = num / den:
\* the distance is (p - lp) / p for a long and (lp - p) / p for a short, negative once
\* the price is past the liquidation price
LevelAt(pos, p, lp) ==
    LET gap == IF pos.position_type = "futures_long" THEN p * lp.den - lp.num
               ELSE lp.num - p * lp.den
    IN  IF 100 * gap > 50 * p * lp.den THEN "safe"
        ELSE IF 100 * gap > 25 * p * lp.den THEN "moderate"
        ELSE "high"

\* C19: a returned dashboard has one liquidation entry per futures position with
\* leverage above 1, in the order of the positions, and none for any other position;
\* the liquidation price of an entry is entry_price * (1 - 0.9 / leverage) for a long
\* and entry_price * (1 + 0.9 / leverage) for a short; its level is safe when the
\* distance of the current price from the liquidation price, in percent of the
\* current price, is above 50, moderate when it is above 25 and at most 50, and high
\* otherwise (also when the price is NaN); the overall risk is high if some entry is
\* high, else moderate if some entry is moderate, else low.
C19_LiquidationAssessment ==
    Returned =>
        LET risks == dashboard.liquidation_risk.positions
            overall == dashboard.liquidation_risk.overall_risk
        IN  /\ Len(risks) = Cardinality(LeveragedFutures)
            /\ \A k \in DOMAIN risks :
                  LET pos == positions[NthLeveraged(k)]
                      lp == risks[k].liquidation_price
                      p == AssessedAt(pos)
                  IN  /\ risks[k].asset = pos.asset
                      /\ risks[k].position_type = pos.position_type
                      /\ lp.num * 10 * pos.leverage =
                            lp.den * pos.entry_price
                                * (IF pos.position_type = "futures_long"
                                   THEN 10 * pos.leverage - 9 ELSE 10 * pos.leverage + 9)
                      /\ risks[k].risk_level =
                            IF p = NaN THEN "high" ELSE LevelAt(pos, p[1], lp)
            /\ overall = IF \E k \in DOMAIN risks : risks[k].risk_level = "high" THEN "high"
                         ELSE IF \E k \in DOMAIN risks : risks[k].risk_level = "moderate"
                              THEN "moderate"
                         ELSE "low"
            /\ Len(risks) = 0 => overall = "low"

\* C19 witness: a long and a short, both at leverage 3, assessed at a price at which
\* the long is safe and the short is past its liquidation price; the overall risk is
\* high.
C19_Witness ==
    /\ Returned
    /\ Len(dashboard.liquidation_risk.positions) = 2
    /\ dashboard.liquidation_risk.positions[1].risk_level = "safe"
    /\ dashboard.liquidation_risk.positions[1].position_type = "futures_long"
    /\ dashboard.liquidation_risk.positions[2].risk_level = "high"
    /\ dashboard.liquidation_risk.positions[2].position_type = "futures_short"
    /\ dashboard.liquidation_risk.overall_risk = "high"


\* abs(delta_exposure) / current_value is above pct percent (for a current value
\* above 0; the normalized delta is 0 otherwise)
DeltaAbove(pct) ==
    /\ current_value # NaN
    /\ current_value[1] > 0
    /\ delta_exposure # NaN
    /\ 100 * (IF delta_exposure[1] < 0 THEN 0 - delta_exposure[1] ELSE delta_exposure[1])
          > pct * current_value[1]

\* C20: in a returned dashboard the rebalancing signal has needed = TRUE exactly when
\* the normalized delta is above 5%, urgency "high" when it is above 15%, "medium"
\* when it is above 5% and at most 15%, "none" when it is at most 5%; needed is TRUE
\* exactly when urgency is not "none".
C20_RebalancingSignal ==
    Returned =>
        LET signal == dashboard.rebalancing_signal
        IN  /\ signal.needed <=> DeltaAbove(5)
            /\ signal.urgency = IF DeltaAbove(15) THEN "high"
                                ELSE IF DeltaAbove(5) THEN "medium" ELSE "none"
            /\ signal.needed <=> signal.urgency # "none"

\* C20 witness: a normalized delta of exactly 15%, which needs rebalancing with
\* urgency medium.
C20_Witness ==
    /\ Returned
    /\ current_value = Cell(100)
    /\ delta_exposure = Cell(15)
    /\ dashboard.rebalancing_signal.needed
    /\ dashboard.rebalancing_signal.urgency = "medium"

\* the price sum and count the gauge averages over: the prices above zero
GaugeSum == SumPrices(current_prices, PositivePrices(current_prices))
GaugeCount == Cardinality(PositivePrices(current_prices))
\* delta_exposure / (portfolio_value / average price) as numerator and
\* denominator, for a portfolio value above zero; the average price is 1 when
\* no price is above zero
GaugeNum == IF GaugeCount = 0 THEN delta_exposure[1] ELSE delta_exposure[1] * GaugeSum
GaugeDen == IF GaugeCount = 0 THEN current_value[1] ELSE current_value[1] * GaugeCount

\* C21: calculate_delta_gauge returns delta_normalized = delta_exposure /
\* (portfolio_value / average price) clamped to [-1, 1], and 0 when the
\* portfolio value is not above zero, so -1 <= delta_normalized <= 1 always;
\* status is neutral when |delta_normalized| <= 0.05, slight_long or
\* slight_short when it is at most 0.20, high_long or high_short above 0.20,
\* the suffix matching the sign of delta_normalized.
C21_DeltaGauge ==
    delta_gauge # None =>
        LET dn == delta_gauge.delta_normalized[1]
            mag == FAbs(dn)
        IN  /\ ~IsNa(delta_gauge.delta_normalized)
            /\ FLeq(Frac(0 - 1, 1), dn) /\ FLeq(dn, Frac(1, 1))
            /\ (IsNa(current_value) \/ current_value[1] <= 0) => dn = Zero
            /\ (~IsNa(current_value) /\ current_value[1] > 0 /\ ~IsNa(delta_exposure)) =>
                   /\ GaugeNum > GaugeDen => dn = Frac(1, 1)
                   /\ GaugeNum < 0 - GaugeDen => dn = Frac(0 - 1, 1)
                   /\ (GaugeNum <= GaugeDen /\ GaugeNum >= 0 - GaugeDen) =>
                          dn.num * GaugeDen = GaugeNum * dn.den
            /\ FLeq(mag, Frac(5, 100)) => delta_gauge.status = "neutral"
            /\ (FLt(Frac(5, 100), mag) /\ FLeq(mag, Frac(20, 100))) =>
                   delta_gauge.status = (IF dn.num > 0 THEN "slight_long" ELSE "slight_short")
            /\ FLt(Frac(20, 100), mag) =>
                   delta_gauge.status = (IF dn.num > 0 THEN "high_long" ELSE "high_short")

\* a gauge whose quotient 3 * 200 / 100 was clamped to 1
C21_Witness ==
    /\ delta_gauge # None
    /\ delta_exposure = Cell(3)
    /\ current_value = Cell(100)
    /\ GaugeSum = 400 /\ GaugeCount = 2
    /\ delta_gauge.delta_normalized = Cell(Frac(1, 1))
    /\ delta_gauge.status = "high_long"

\* C30 as claimed: for the same delta exposure, portfolio value and prices the
\* gauge of calculate_delta_gauge is neutral exactly when the dashboard of
\* calculate_alert_dashboard does not ask for rebalancing (stated for a delta
\* exposure and a portfolio value that are numbers).
C30_GaugeAndDashboardAgree ==
    (delta_gauge # None /\ dashboard # None
        /\ ~IsNa(delta_exposure) /\ ~IsNa(current_value)) =>
        (delta_gauge.status = "neutral" <=> ~dashboard.rebalancing_signal.needed)

\* the table has a row with a shock of exactly 0
HasZeroRow == \E i \in DOMAIN sensitivity_table : sensitivity_table[i].price_change_pct = 0
\* every portfolio value of the table is a number
AllValued == \A i \in DOMAIN sensitivity_table : ~IsNa(sensitivity_table[i].portfolio_value)

\* C23: calculate_sensitivity_graph returns one data point per row, in row
\* order; current_position is the index of a row whose price_change_pct is
\* exactly 0 and value_range.current that row's portfolio_value; value_range.min
\* and max are the smallest and the largest portfolio_value; an empty table
\* gives no data points, position 0 and a range of zeros; the call returns.
C23_SensitivityGraph ==
    /\ (pc = "Done" /\ risk_contribution = None) => sensitivity_graph # None
    /\ sensitivity_graph # None =>
        LET g == sensitivity_graph
            t == sensitivity_table
        IN  /\ t = <<>> =>
                   /\ g.data_points = <<>>
                   /\ g.current_position = 0
                   /\ g.value_range = [min |-> Cell(0), max |-> Cell(0), current |-> Cell(0)]
            /\ Len(g.data_points) = Len(t)
            /\ \A i \in DOMAIN t :
                   /\ g.data_points[i].x = t[i].price_change_pct
                   /\ g.data_points[i].y = t[i].portfolio_value
                   /\ g.data_points[i].pnl = t[i].pnl
                   /\ g.data_points[i].return_pct = t[i].return_pct
            /\ HasZeroRow =>
                   /\ g.current_position + 1 \in DOMAIN t
                   /\ t[g.current_position + 1].price_change_pct = 0
                   /\ g.value_range.current = t[g.current_position + 1].portfolio_value
            /\ (t # <<>> /\ AllValued) =>
                   /\ \E i \in DOMAIN t : g.value_range.min = t[i].portfolio_value
                   /\ \E i \in DOMAIN t : g.value_range.max = t[i].portfolio_value
                   /\ \A i \in DOMAIN t :
                          /\ g.value_range.min[1] <= t[i].portfolio_value[1]
                          /\ g.value_range.max[1] >= t[i].portfolio_value[1]

\* a graph of a table whose zero row comes first and whose values differ
C23_Witness ==
    /\ sensitivity_graph # None
    /\ Len(sensitivity_table) = 3
    /\ sensitivity_table[1].price_change_pct = 0
    /\ sensitivity_graph.current_position = 0
    /\ AllValued
    /\ sensitivity_graph.value_range.min # sensitivity_graph.value_range.max
    /\ sensitivity_graph.value_range.current = sensitivity_table[1].portfolio_value

\* the assets held by the positions given to calculate_risk_contribution
HeldAssets == {positions[i].asset : i \in DOMAIN positions}
\* the sum of the values of the positions in asset a
RECURSIVE ValueIn(_, _)
ValueIn(a, ps) ==
    IF ps = <<>> THEN 0
    ELSE (IF ps[1].asset = a THEN ValueOf(ps[1]) ELSE 0) + ValueIn(a, Tail(ps))
\* the call returns the empty structure
ContributionIsEmpty ==
    /\ risk_contribution.contributions = <<>>
    /\ risk_contribution.total_risk = Zero
    /\ risk_contribution.diversification_benefit = Zero

\* C22 as claimed: calculate_risk_contribution returns one entry per asset held,
\* each with value_pct = 100 * (the asset's value / the total value), ordered by
\* non-increasing |risk_pct|; it returns the empty structure when positions is
\* empty, the portfolio variance is 0 or the total value is 0.
C22_RiskContribution ==
    risk_contribution # None =>
        LET c == risk_contribution.contributions
            total == TotalValue(positions)
        IN  IF positions = <<>> \/ portfolio_variance = Zero \/ total = 0
            THEN ContributionIsEmpty
            ELSE /\ Len(c) = Cardinality(HeldAssets)
                 /\ \A a \in HeldAssets : \E i \in DOMAIN c : c[i].asset = a
                 /\ \A i \in DOMAIN c :
                        c[i].value_pct.num * total =
                            100 * ValueIn(c[i].asset, positions) * c[i].value_pct.den
                 /\ \A i, j \in DOMAIN c :
                        i < j => FLeq(FAbs(c[j].risk_pct), FAbs(c[i].risk_pct))

\* the prices of the row of the given day, under the keys (asset, position_type)
RowPrices(day) ==
    [k \in {<<positions[i].asset, positions[i].position_type>> : i \in DOMAIN positions} |->
        LET i == CHOOSE j \in DOMAIN positions :
                     <<positions[j].asset, positions[j].position_type>> = k
        IN  aligned.cols[RequiredColumn(positions[i])][day]]

\* C24: once the historical series is computed it has exactly one value per row
\* of the aligned table, in row order, each the portfolio value of all positions
\* at the prices of that row; so its last value is the current portfolio value,
\* which a successful call reports.
C24_HistoricalSeries ==
    StageOk(7) =>
        /\ Len(portfolio_values) = aligned.hi - aligned.lo + 1
        /\ \A k \in DOMAIN portfolio_values :
              portfolio_values[k] = PortfolioValue(positions, RowPrices(aligned.lo + k - 1))
        /\ portfolio_values[Len(portfolio_values)] = current_value
        /\ (pc = "Done" /\ result.kind = "Success") =>
              portfolio_values[Len(portfolio_values)] = result.current_portfolio_value

\* C24 witness: a successful call whose series has several values, the first
\* differing from the last
C24_Witness ==
    /\ pc = "Done"
    /\ result.kind = "Success"
    /\ Len(portfolio_values) >= 3
    /\ Len(positions) = 2
    /\ ~IsNa(portfolio_values[1])
    /\ portfolio_values[1] # portfolio_values[Len(portfolio_values)]
    /\ portfolio_values[Len(portfolio_values)] = result.current_portfolio_value

(***************************************************************************)
(* The agent: the tools of tools/base.py under SpecTools, the services of  *)
(* api/service.py and the retries of backend_client.py.                    *)
(***************************************************************************)
\* the arguments of a set_portfolio call for which the claim requires success = False,
\* whatever the model validation says
Refused(call) ==
    \/ call.positions_json.t # "list"
    \/ Len(call.positions_json.v) < 1
    \/ Len(call.positions_json.v) > 20
    \/ \E i \in DOMAIN call.positions_json.v : ToolCheckPosition(call.positions_json.v[i]) # "ok"
    \/ \A i \in DOMAIN call.explanation : call.explanation[i] = " "

C29_ToolAcceptsOnlyWhatTheCoreAccepts ==
    (/\ tool_call.tool = "calculate_risk_profile"
     /\ result.posted
     /\ \A i \in DOMAIN tool_call.positions_json.v :
            tool_call.positions_json.v[i].position_type \in POSITION_TYPES)
    => /\ ValidatePositions(tool_call.positions_json.v).ok
       /\ "detail" \in DOMAIN result => result.detail.ok


(***************************************************************************)
(* The backend client.                                                     *)
(***************************************************************************)
AttemptFailed(i) == "raised" \in DOMAIN trace[i]

\* C25: a call of calculate_risk_profile or get_aggregated_stats of the client makes
\* at most 3 attempts; no attempt follows a successful one, whose response is what
\* the call returns; another attempt follows a failed one only while fewer than 3
\* have been made; after the third failed attempt the call raises the error of
\* that attempt
C25_AtMostThreeAttempts ==
    tool_call.tool \in CLIENT_METHODS =>
        /\ Len(trace) <= 3
        /\ \A i \in 1 .. Len(trace) - 1 : AttemptFailed(i)
        /\ pc \in {"attempt", "sleep"} =>
              /\ Len(trace) < 3
              /\ result = None
              /\ pc = "sleep" => Len(trace) >= 1 /\ AttemptFailed(Len(trace))
        /\ pc = "Done" =>
              /\ Len(trace) >= 1
              /\ result = trace[Len(trace)]
              /\ AttemptFailed(Len(trace)) => Len(trace) = 3

\* the third attempt has failed and its error, which differs from the error of
\* the first attempt, is raised
C25_Witness ==
    /\ tool_call.tool \in CLIENT_METHODS
    /\ pc = "Done"
    /\ Len(trace) = 3
    /\ "raised" \in DOMAIN result
    /\ result = trace[3]
    /\ result # trace[1]


(***************************************************************************)
(* The chat service.                                                       *)
(***************************************************************************)
InSeq(x, q) == \E i \in DOMAIN q : q[i] = x

\* the jobs in the queue that belong to a chat
JobsOf(chat_id) == Cardinality({i \in DOMAIN queue : queue[i].chat_id = chat_id})

\* handler h ends its call with a record in this step
ReturnsRecord(h) == request[h].pc # "returned" /\ request'[h].pc = "returned"

\* C27: in create_chat_service and followup_service the job is enqueued only after
\* the user message of the call is in the store (the chat then holds more messages
\* than it has jobs in the queue); a call that returns has enqueued
\* exactly one job, and no other step touches the queue; followup_service for a chat
\* the store does not have raises ValueError and leaves the store and the queue as
\* they were
C27_MessageThenOneJob ==
    [][/\ queue' # queue =>
            \E h \in Handlers :
               /\ ReturnsRecord(h)
               /\ request[h].pc = "enqueue"
               /\ InSeq(request[h].prompt, chat_store[request[h].chat_id].messages)
               /\ Len(chat_store[request[h].chat_id].messages) > JobsOf(request[h].chat_id)
               /\ Len(queue') = Len(queue) + 1
               /\ SubSeq(queue', 1, Len(queue)) = queue
               /\ queue'[Len(queue')].chat_id = request[h].chat_id
               /\ queue'[Len(queue')].user_prompt = request[h].prompt
       /\ \A h \in Handlers :
             /\ ReturnsRecord(h) => Len(queue') = Len(queue) + 1 /\ chat_store' = chat_store
             /\ (/\ request'[h] # request[h]
                 /\ request'[h].op = "followup_service"
                 /\ request[h].pc # "add_user_message"
                 /\ request[h].pc # "enqueue"
                 /\ request'[h].chat_id \notin DOMAIN chat_store)
                => /\ request'[h].pc = "raised"
                   /\ request'[h].error = "ValueError"
                   /\ chat_store' = chat_store
                   /\ queue' = queue
      ]_vars

\* a followup for a missing chat has raised ValueError while a followup for a chat
\* made by create_chat_service has returned, two jobs in the queue
C27_Witness ==
    /\ request[1].op = "followup_service"
    /\ request[1].pc = "raised"
    /\ request[1].error = "ValueError"
    /\ request[1].chat_id \notin DOMAIN chat_store
    /\ request[2].op = "followup_service"
    /\ request[2].pc = "returned"
    /\ Len(queue) = 2
    /\ ~queue[1].is_followup
    /\ queue[2].is_followup

\* C28: the jobs enqueued by create_chat_service and followup_service all have
\* different job ids
C28_JobIdsDistinct ==
    \A i, j \in DOMAIN queue : i # j => queue[i].job_id # queue[j].job_id

====
